---- MODULE Spec2Model ----
(***************************************************************************)
(* The ensemble router of scripts/route_task_v3.py as a state machine.     *)
(*                                                                         *)
(* Numbers.  The router computes in floating point; here every real is a   *)
(* fixed-point integer.  Signal values (keyword, TF-IDF, embedding and     *)
(* complexity scores, cosine similarities, dense-vector components) are    *)
(* held in units of 1/SCALE; TF-IDF term weights in units of 1/TW; blend   *)
(* weights in percent.  A blended score is therefore held in units of      *)
(* 1/(100*SCALE): the interval [0, 1] is 0 .. 100*SCALE.  Divisions        *)
(* truncate (\div).                                                        *)
(*                                                                         *)
(* Strings.  A task is a record: its text, the set `found` of the strings  *)
(* of the taxonomy and of the complexity indicators that occur in          *)
(* text.lower() as substrings (what `s in task_lower` decides), its        *)
(* whitespace word count (len(task.split())) and `runs`, the maximal runs  *)
(* of [a-z] of text.lower() in order (what re.findall finds).              *)
(***************************************************************************)
EXTENDS Integers, Sequences, FiniteSets, TLC

SCALE == 10 * 100

TW == 10 * 10

Pct(p) == p * SCALE

Max(a, b) == IF a >= b THEN a ELSE b

Min(a, b) == IF a <= b THEN a ELSE b

RECURSIVE SumOver(_, _)
SumOver(f, S) ==
  IF S = {} THEN 0
  ELSE LET x == CHOOSE y \in S : TRUE IN f[x] + SumOver(f, S \ {x})

RECURSIVE SumSeq(_)
SumSeq(s) == IF s = <<>> THEN 0 ELSE Head(s) + SumSeq(Tail(s))

MaxOver(f, S) == CHOOSE m \in {f[x] : x \in S} : \A x \in S : f[x] <= m

\* math.sqrt on a fixed-point square: the largest r with r*r <= n.
RECURSIVE SqrtFrom(_, _, _)
SqrtFrom(n, lo, hi) ==
  IF lo >= hi THEN lo
  ELSE LET mid == (lo + hi + 1) \div 2
       IN IF mid * mid <= n THEN SqrtFrom(n, mid, hi) ELSE SqrtFrom(n, lo, mid - 1)

Sqrt(n) == SqrtFrom(n, 0, Min(n, 46340))

\* ---------------------------------------------------------------------------
\* Agent configuration

Registry == <<"kimi", "claude", "copilot", "codex", "ollama">>

Agents == {Registry[i] : i \in 1..Len(Registry)}

RegistryIndex(a) == CHOOSE i \in 1..Len(Registry) : Registry[i] = a

AGENT_THRESHOLDS ==
  [kimi |-> Pct(35), claude |-> Pct(45), copilot |-> Pct(30),
   codex |-> Pct(40), ollama |-> Pct(50)]

FALLBACK_AGENT == "kimi"

AGENT_TAXONOMY ==
  [kimi |->
     [keywords |-> {
          "implement", "build", "deploy", "fix", "refactor", "test", "create",
          "install", "migrate", "debug", "execute", "run", "scaffold", "configure",
          "setup", "ci", "cd", "pipeline", "docker", "kubernetes", "infrastructure",
          "devops", "shell", "script", "automate", "endpoint", "api", "crud",
          "database", "parallel", "multiple files", "batch"},
      phrase_patterns |-> {
          "across multiple", "across all", "across three", "then implement",
          "then build", "integrate", "set up", "batch process", "then deploy"},
      negative_keywords |-> {
          "from scratch", "single module", "focused", "draft", "sketch", "brainstorm",
          "research", "analyze", "document", "compare", "evaluate trade", "deep dive",
          "summarize", "quick fix", "inline", "hint", "rename", "small change",
          "snippet"},
      weight |-> SCALE,
      complexity_bias |-> "high"],
   claude |->
     [keywords |-> {
          "research", "analyze", "document", "architecture", "design", "compare",
          "evaluate", "review", "deep dive", "explain", "summarize", "assess",
          "strategy", "plan", "rfc", "adr", "trade-off", "pros cons", "long-term",
          "security audit", "threat model", "literature", "specification",
          "whitepaper", "decision record", "technical debt"},
      phrase_patterns |-> {
          "evaluate trade", "pros and cons", "deep dive into", "compare vs",
          "assess the", "create a plan", "strategy for", "research into",
          "analyze the", "document the", "architecture decision",
          "comprehensive architecture", "assess technical", "debt and create"},
      negative_keywords |-> {
          "implement", "build", "deploy", "fix", "create", "migrate", "quick",
          "snippet", "inline", "draft", "sketch", "mock"},
      weight |-> SCALE,
      complexity_bias |-> "high"],
   copilot |->
     [keywords |-> {
          "review", "quick", "snippet", "complete", "suggest", "inline", "hint",
          "type", "rename", "extract", "refactor", "single file", "function", "class",
          "method", "variable", "format", "lint", "clean", "tidy", "small change"},
      phrase_patterns |-> {
          "quick fix", "small change", "rename the", "inline hint", "extract this",
          "complete this", "type definition", "format this", "clean up",
          "suggest improvement"},
      negative_keywords |-> {
          "across", "multiple", "all files", "entire", "architecture", "research",
          "analyze", "document", "deploy", "infrastructure", "design pattern",
          "strategy"},
      weight |-> SCALE,
      complexity_bias |-> "low"],
   codex |->
     [keywords |-> {
          "build", "implement", "feature", "module", "service", "endpoint",
          "autonomous", "end to end", "from scratch", "single module", "focused",
          "api", "crud", "websocket", "oauth", "payment", "migration", "middleware",
          "caching", "redis", "upload", "validation"},
      phrase_patterns |-> {
          "from scratch", "end to end", "single module", "focused module", "build the",
          "implement the", "create the", "module for", "service for",
          "autonomous implementation"},
      negative_keywords |-> {
          "across", "multiple", "then implement", "then build", "integrate",
          "research", "analyze", "quick fix", "inline", "draft", "sketch"},
      weight |-> SCALE,
      complexity_bias |-> "medium"],
   ollama |->
     [keywords |-> {
          "draft", "sketch", "prototype", "brainstorm", "iterate", "offline", "local",
          "fast", "quick draft", "rough", "experiment", "try", "mock", "stub",
          "placeholder", "template", "boilerplate", "generate ideas"},
      phrase_patterns |-> {
          "draft the", "sketch out", "brainstorm", "prototype of", "rough draft",
          "quick draft", "template for", "boilerplate", "mock the", "stub for",
          "placeholder for", "stub out", "generate ideas", "experiment with"},
      negative_keywords |-> {
          "implement", "build", "deploy", "fix", "migrate", "debug", "architecture",
          "research", "analyze", "end to end", "from scratch"},
      weight |-> SCALE,
      complexity_bias |-> "low"]]

STOPWORDS ==
  {
    "a", "after", "all", "an", "and", "any", "are", "as", "at", "be", "because",
    "been", "before", "being", "both", "but", "by", "can", "could", "did", "do",
    "does", "during", "each", "either", "every", "few", "for", "from", "had", "has",
    "have", "i", "if", "in", "into", "is", "it", "just", "may", "me", "might", "more",
    "most", "my", "neither", "no", "nor", "not", "of", "on", "only", "or", "other",
    "own", "same", "shall", "should", "so", "some", "such", "than", "that", "the",
    "these", "this", "those", "through", "to", "too", "us", "very", "was", "we",
    "were", "when", "will", "with", "would", "yet"}

\* ---------------------------------------------------------------------------
\* Tasks of the model

Task(text, found, word_count, runs) ==
  [text |-> text, found |-> found, word_count |-> word_count, runs |-> runs]

Tasks ==
  { Task("", {}, 0, <<>>),
    Task("xyzzy", {}, 1, <<"xyzzy">>),
    Task("hint try", {"hint", "try"}, 2, <<"hint", "try">>),
    Task("adr cd", {"adr", "cd"}, 2, <<"adr", "cd">>),
    Task("api", {"api"}, 1, <<"api">>),
    Task("boilerplate hint lint prototype",
         {"boilerplate", "hint", "lint", "prototype", "type"}, 4,
         <<"boilerplate", "hint", "lint", "prototype">>),
    Task("Research and analyze the architecture",
         {"analyze", "analyze the", "architecture", "research"}, 5,
         <<"research", "and", "analyze", "the", "architecture">>),
    Task("a review of the api module and its test plan for us",
         {"api", "module", "plan", "review", "test"}, 12,
         <<"a", "review", "of", "the", "api", "module", "and", "its", "test",
           "plan", "for", "us">>) }

\* `s in task_lower`
Contains(task, s) == s \in task.found

\* ---------------------------------------------------------------------------
\* Keyword and complexity scorers

keyword_score(task, agent) ==
  LET taxonomy == AGENT_TAXONOMY[agent]
      hits == Cardinality({kw \in taxonomy.keywords : Contains(task, kw)})
      phrase_hits ==
        2 * Cardinality({p \in taxonomy.phrase_patterns : Contains(task, p)})
      penalty ==
        (SCALE \div 2)
          * Cardinality({n \in taxonomy.negative_keywords : Contains(task, n)})
      max_possible == Max(Cardinality(taxonomy.keywords), 1)
      score ==
        ((((hits + phrase_hits) * SCALE) \div max_possible) * taxonomy.weight)
          \div SCALE - penalty
  IN Max(score, 0)

\* `total = sum(...) or 1.0`
OrOne(total) == IF total = 0 THEN SCALE ELSE total

\* get_keyword_scores with an even share for every agent when no keyword scores
get_keyword_scores_even(task) ==
  LET scores == [a \in Agents |-> keyword_score(task, a)]
      total == SumOver(scores, Agents)
  IN [a \in Agents |->
        IF total = 0 THEN SCALE \div Cardinality(Agents)
        ELSE (scores[a] * SCALE) \div total]

get_keyword_scores(task) ==
  LET scores == [a \in Agents |-> keyword_score(task, a)]
      total == OrOne(SumOver(scores, Agents))
  IN [a \in Agents |-> (scores[a] * SCALE) \div total]

indicators_high ==
  {"across", "multiple", "all files", "refactor", "migrate", "architecture",
   "system", "infrastructure", "deploy", "research", "analyze", "deep dive",
   "comprehensive"}

indicators_low ==
  {"quick", "simple", "single", "small", "rename", "typo", "format", "lint",
   "draft", "sketch", "snippet"}

complexity_score(task) ==
  LET high_hits == Cardinality({i \in indicators_high : Contains(task, i)})
      low_hits == Cardinality({i \in indicators_low : Contains(task, i)})
      word_count == task.word_count
  IN IF high_hits >= 2 \/ word_count > 20 THEN "high"
     ELSE IF low_hits >= 2 \/ word_count < 8 THEN "low"
     ELSE "medium"

complexity_match(task, agent) ==
  LET task_complexity == complexity_score(task)
      agent_bias == AGENT_TAXONOMY[agent].complexity_bias
  IN IF task_complexity = agent_bias THEN (2 * SCALE) \div 10
     ELSE IF (task_complexity = "high" /\ agent_bias = "low")
             \/ (task_complexity = "low" /\ agent_bias = "high")
          THEN -(SCALE \div 10)
     ELSE 0

get_complexity_scores(task) == [a \in Agents |-> complexity_match(task, a)]

\* ---------------------------------------------------------------------------
\* TF-IDF engine

tokenize(task) ==
  SelectSeq(task.runs, LAMBDA t : t \notin STOPWORDS /\ Len(t) > 1)

\* collections.Counter over a token list
Counter(tokens) ==
  [t \in {tokens[i] : i \in 1..Len(tokens)} |->
     Cardinality({i \in 1..Len(tokens) : tokens[i] = t})]

\* A sparse vector is a function from its terms to weights in units of 1/TW.
cosine_similarity_tfidf(vec_a, vec_b) ==
  LET common == DOMAIN vec_a \cap DOMAIN vec_b
      dot == SumOver([k \in common |-> vec_a[k] * vec_b[k]], common)
      norm_a == Sqrt(SumOver([k \in DOMAIN vec_a |-> vec_a[k] * vec_a[k]], DOMAIN vec_a))
      norm_b == Sqrt(SumOver([k \in DOMAIN vec_b |-> vec_b[k] * vec_b[k]], DOMAIN vec_b))
  IN IF common = {} THEN 0
     ELSE IF norm_a = 0 \/ norm_b = 0 THEN 0
     ELSE (dot * SCALE) \div (norm_a * norm_b)

\* list.sort(key=lambda x: x[...], reverse=True) over records that carry their
\* sort key in the field `key`: a stable sort, equal keys keep their order.
RECURSIVE InsertDesc(_, _)
InsertDesc(x, s) ==
  IF s = <<>> THEN <<x>>
  ELSE IF Head(s).key >= x.key THEN <<Head(s)>> \o InsertDesc(x, Tail(s))
  ELSE <<x>> \o s

RECURSIVE SortDescFrom(_, _)
SortDescFrom(s, acc) ==
  IF s = <<>> THEN acc
  ELSE SortDescFrom(Tail(s), InsertDesc(Head(s), acc))

SortDesc(s) == SortDescFrom(s, <<>>)

get_tfidf_scores(task, index, top_k) ==
  LET task_tokens == tokenize(task)
      task_tf == Counter(task_tokens)
      max_tf == IF DOMAIN task_tf = {} THEN 1 ELSE MaxOver(task_tf, DOMAIN task_tf)
      idf_get(t) == IF t \in DOMAIN index.idf THEN index.idf[t] ELSE TW
      task_tfidf == [t \in DOMAIN task_tf |-> (task_tf[t] * idf_get(t)) \div max_tf]
      similarities ==
        [i \in 1..Len(index.documents) |->
           [agent |-> index.documents[i].agent,
            key |-> cosine_similarity_tfidf(task_tfidf, index.documents[i].tfidf)]]
      sorted == SortDesc(similarities)
      top_matches == SubSeq(sorted, 1, Min(top_k, Len(sorted)))
      tfidf_scores ==
        [a \in Agents |->
           SumSeq([i \in 1..Len(top_matches) |->
                     IF top_matches[i].agent = a THEN top_matches[i].key ELSE 0])]
      total ==
        OrOne(SumSeq([i \in 1..Len(top_matches) |-> top_matches[i].key]))
  IN [a \in Agents |-> (tfidf_scores[a] * SCALE) \div total]


\* ---------------------------------------------------------------------------
\* Values, exceptions, files
\*
\* An optional value is None or Some(v); a computation that can raise yields
\* Raise(e) instead of a value.  A file is missing, or holds text: text that
\* json.loads rejects (corrupt), or the JSON value `val`.

None == [kind |-> "None"]

Some(v) == [kind |-> "value", val |-> v]

Raise(e) == [kind |-> "raise", exc |-> e]

Missing == [kind |-> "missing"]

Corrupt == [kind |-> "corrupt"]

Json(v) == [kind |-> "json", val |-> v]

\* Path.exists()
exists(file) == file.kind # "missing"

\* json.loads(path.read_text())
json_loads(file) ==
  IF file.kind = "json" THEN Some(file.val) ELSE Raise("JSONDecodeError")

\* ---------------------------------------------------------------------------
\* Ollama embeddings (Tier 1)
\*
\* A provider response is what the HTTP exchange of one call produces: a
\* transport failure, a timeout, a body that is no JSON, or a JSON body.

ProviderFailures == {"URLError", "timeout", "bad_json"}

\* the body of the try block: the request, the read and result.get("embedding")
request_embedding(response) ==
  IF response.kind \in ProviderFailures THEN Raise(response.kind)
  ELSE IF "embedding" \in DOMAIN response.body THEN Some(response.body.embedding)
  ELSE None

get_ollama_embedding(response) ==
  LET r == request_embedding(response)
  IN IF r.kind = "raise" THEN None ELSE r

\* zip(a, b) stops at the shorter vector; the norms run over each whole vector.
cosine_similarity_vectors(a, b) ==
  LET n == Min(Len(a), Len(b))
      dot == SumSeq([i \in 1..n |-> a[i] * b[i]])
      norm_a == Sqrt(SumSeq([i \in 1..Len(a) |-> a[i] * a[i]]))
      norm_b == Sqrt(SumSeq([i \in 1..Len(b) |-> b[i] * b[i]]))
  IN IF norm_a = 0 \/ norm_b = 0 THEN 0
     ELSE (dot * SCALE) \div (norm_a * norm_b)

\* the try block of get_ollama_similarities, the query embedding in hand
similarities_from_cache(ollama_embedding, cache_file) ==
  LET cache == json_loads(cache_file)
      items ==
        IF "embeddings" \in DOMAIN cache.val THEN cache.val.embeddings ELSE <<>>
      similarities ==
        [i \in 1..Len(items) |->
           [agent |-> items[i].agent,
            key |-> cosine_similarity_vectors(ollama_embedding, items[i].embedding)]]
      present == {a \in Agents : \E i \in 1..Len(items) : items[i].agent = a}
      agent_scores(a) ==
        SortDesc(SelectSeq(similarities, LAMBDA x : x.agent = a))
      top3(a) == SubSeq(agent_scores(a), 1, Min(3, Len(agent_scores(a))))
      agent_sims ==
        [a \in present |->
           SumSeq([i \in 1..Len(top3(a)) |-> top3(a)[i].key])
             \div Min(3, Len(agent_scores(a)))]
      max_sim == IF present = {} THEN SCALE ELSE MaxOver(agent_sims, present)
  IN IF cache.kind = "raise" THEN None
     ELSE IF Len(items) = 0 THEN None
     ELSE IF max_sim > 0
          THEN Some([a \in present |-> (agent_sims[a] * SCALE) \div max_sim])
     ELSE Some(agent_sims)

\* Whether get_ollama_similarities reaches its call of the provider.
calls_provider(cache_file) == exists(cache_file)

get_ollama_similarities(cache_file, response) ==
  LET ollama_embedding == get_ollama_embedding(response)
  IN IF ~exists(cache_file) THEN None
     ELSE IF ollama_embedding.kind = "None" \/ ollama_embedding.val = <<>> THEN None
     ELSE similarities_from_cache(ollama_embedding.val, cache_file)


\* ---------------------------------------------------------------------------
\* Ensemble router: the pure parts of route

\* weights are <<embedding, keyword, tfidf, complexity>> in percent
default_weights(tier) ==
  IF tier = "tier1" THEN <<100, 0, 0, 0>>
  ELSE IF tier = "tier2" THEN <<0, 50, 30, 20>>
  ELSE IF tier = "tier3" THEN <<0, 100, 0, 0>>
  ELSE <<35, 45, 20, 0>>

\* truth value of a dict that may be None
Truthy(opt) == opt.kind = "value" /\ DOMAIN opt.val # {}

\* d.get(agent, 0.0)
Get(d, agent) == IF agent \in DOMAIN d THEN d[agent] ELSE 0

\* route(..., top_k: int = 3, ...): the number of nearest documents that vote
TOP_K == 3

\* get_tfidf_scores reads index["idf"] once per query term and then
\* index["documents"]: a missing key raises KeyError.
tfidf_scores_of(task, index, top_k) ==
  IF ("idf" \notin DOMAIN index /\ tokenize(task) # <<>>)
       \/ "documents" \notin DOMAIN index
  THEN Raise("KeyError")
  ELSE Some(get_tfidf_scores(task, index, top_k))

blend(w, embed_scores, kw_scores, tfidf_scores, cx_scores) ==
  [agent \in Agents |->
     (IF Truthy(embed_scores) THEN w[1] * Get(embed_scores.val, agent) ELSE 0)
     + (IF Truthy(kw_scores) THEN w[2] * Get(kw_scores.val, agent) ELSE 0)
     + (IF Truthy(tfidf_scores) THEN w[3] * Get(tfidf_scores.val, agent) ELSE 0)
     + (IF Truthy(cx_scores) THEN w[4] * Get(cx_scores.val, agent) ELSE 0)]

\* a max that keeps the last of the maximal keys instead of the first
max_key_last(final_scores) ==
  LET best == MaxOver(final_scores, Agents)
      last == CHOOSE i \in 1..Len(Registry) :
                /\ final_scores[Registry[i]] = best
                /\ \A j \in (i + 1)..Len(Registry) : final_scores[Registry[j]] # best
  IN Registry[last]

\* max(final_scores, key=final_scores.get): the first key, in dict order, whose
\* value is maximal
max_key(final_scores) ==
  LET best == MaxOver(final_scores, Agents)
      first == CHOOSE i \in 1..Len(Registry) :
                 /\ final_scores[Registry[i]] = best
                 /\ \A j \in 1..(i - 1) : final_scores[Registry[j]] # best
  IN Registry[first]

\* sorted(final_scores.items(), key=lambda x: x[1], reverse=True)
sorted_scores(final_scores) ==
  SortDesc([i \in 1..Len(Registry) |->
              [agent |-> Registry[i], key |-> final_scores[Registry[i]]]])

\* round(x, 4) of a score held in units of 1e-5: to the nearest 1e-4, a half to
\* the even neighbour
Round4(x) ==
  LET q == x \div 10
      r == x % 10
  IN 10 * (IF r < 5 THEN q
           ELSE IF r > 5 THEN q + 1
           ELSE IF q % 2 = 0 THEN q ELSE q + 1)

\* gate_from with the runner-up measured against the winner's threshold instead
\* of its own
gate_from_winner_threshold(winner, final_scores) ==
  LET confidence == final_scores[winner]
      threshold == AGENT_THRESHOLDS[winner]
      sorted == sorted_scores(final_scores)
      second_agent == sorted[2].agent
      second_score == sorted[2].key
  IN IF confidence < threshold
     THEN IF second_score >= threshold /\ (confidence - second_score) < Pct(10)
          THEN [winner |-> second_agent, confidence |-> second_score,
                method_suffix |-> "-threshold-adjusted",
                top |-> winner, second |-> Some(second_agent)]
          ELSE [winner |-> FALLBACK_AGENT,
                confidence |-> final_scores[FALLBACK_AGENT],
                method_suffix |-> "-fallback",
                top |-> winner, second |-> Some(second_agent)]
     ELSE [winner |-> winner, confidence |-> confidence, method_suffix |-> "",
           top |-> winner, second |-> None]

\* gate_from with a runner-up that is adopted on closeness alone, whatever its
\* own threshold
gate_from_close_runner_up(winner, final_scores) ==
  LET confidence == final_scores[winner]
      threshold == AGENT_THRESHOLDS[winner]
      sorted == sorted_scores(final_scores)
      second_agent == sorted[2].agent
      second_score == sorted[2].key
  IN IF confidence < threshold
     THEN IF (confidence - second_score) < Pct(10)
          THEN [winner |-> second_agent, confidence |-> second_score,
                method_suffix |-> "-threshold-adjusted",
                top |-> winner, second |-> Some(second_agent)]
          ELSE [winner |-> FALLBACK_AGENT,
                confidence |-> final_scores[FALLBACK_AGENT],
                method_suffix |-> "-fallback",
                top |-> winner, second |-> Some(second_agent)]
     ELSE [winner |-> winner, confidence |-> confidence, method_suffix |-> "",
           top |-> winner, second |-> None]

\* lines 489-515: the threshold gate, `winner` being the top-scoring agent.
\* `top` and `second` record the winner and the runner-up the gate looked at.
gate_from(winner, final_scores) ==
  LET confidence == final_scores[winner]
      threshold == AGENT_THRESHOLDS[winner]
      sorted == sorted_scores(final_scores)
      second_agent == sorted[2].agent
      second_score == sorted[2].key
      second_threshold == AGENT_THRESHOLDS[second_agent]
  IN IF confidence < threshold
     THEN IF Len(sorted) >= 2
          THEN IF second_score >= second_threshold
                    /\ (confidence - second_score) < Pct(10)
               THEN [winner |-> second_agent, confidence |-> second_score,
                     method_suffix |-> "-threshold-adjusted",
                     top |-> winner, second |-> Some(second_agent)]
               ELSE [winner |-> FALLBACK_AGENT,
                     confidence |-> final_scores[FALLBACK_AGENT],
                     method_suffix |-> "-fallback",
                     top |-> winner, second |-> Some(second_agent)]
          ELSE [winner |-> FALLBACK_AGENT,
                confidence |-> final_scores[FALLBACK_AGENT],
                method_suffix |-> "-fallback", top |-> winner, second |-> None]
     ELSE [winner |-> winner, confidence |-> confidence, method_suffix |-> "",
           top |-> winner, second |-> None]

\* lines 488-515: winner, confidence and method suffix
threshold_gate(final_scores) == gate_from(max_key(final_scores), final_scores)

\* lines 517-531
match_result(tier, w, final_scores, gate) ==
  [recommended_agent |-> gate.winner,
   confidence |-> Round4(gate.confidence),
   method |-> <<tier, "-ensemble", gate.method_suffix>>,
   tier |-> tier,
   weights |-> [embedding |-> w[1], keyword |-> w[2], tfidf |-> w[3],
                complexity |-> w[4]],
   scores |-> [i \in 1..Len(Registry) |->
                 <<sorted_scores(final_scores)[i].agent,
                   Round4(sorted_scores(final_scores)[i].key)>>]]

\* an error result that reports the fallback agent's threshold as confidence
error_result_confident ==
  [recommended_agent |-> "kimi", confidence |-> AGENT_THRESHOLDS["kimi"],
   method |-> <<"fallback-error">>, tier |-> "error",
   error |-> "Ollama unavailable and no keyword signal"]

\* lines 466-472
error_result ==
  [recommended_agent |-> "kimi", confidence |-> 0, method |-> <<"fallback-error">>,
   tier |-> "error", error |-> "Ollama unavailable and no keyword signal"]


\* ---------------------------------------------------------------------------
\* Inputs of the model

\* What build_tfidf_index writes for the corpus
\*   api -> codex, "hint try" -> copilot, "adr cd deploy" -> kimi, "try api" -> ollama
\* (term weights in units of 1/TW).
Index1 ==
  [idf |-> [api |-> 151, try |-> 151, hint |-> 192, adr |-> 192, cd |-> 192,
            deploy |-> 192],
   documents |->
     << [task |-> "api", agent |-> "codex", tfidf |-> [api |-> 151]],
        [task |-> "hint try", agent |-> "copilot",
         tfidf |-> [hint |-> 192, try |-> 151]],
        [task |-> "adr cd deploy", agent |-> "kimi",
         tfidf |-> [adr |-> 192, cd |-> 192, deploy |-> 192]],
        [task |-> "try api", agent |-> "ollama",
         tfidf |-> [try |-> 151, api |-> 151]] >>]

\* A JSON document that is no index: it has neither "idf" nor "documents".
NotAnIndex == [foo |-> 1]

\* An embedding cache (vector components in units of 1/SCALE).
Cache1 ==
  [embeddings |->
     << [task |-> "cd", agent |-> "kimi", embedding |-> <<600, 800>>],
        [task |-> "adr", agent |-> "claude", embedding |-> <<600, 800>>],
        [task |-> "hint", agent |-> "copilot", embedding |-> <<800, -600>>],
        [task |-> "api", agent |-> "codex", embedding |-> <<-600, -800>>] >>]

\* An embedding cache whose vectors differ in dimension.
Cache2 ==
  [embeddings |->
     << [task |-> "cd", agent |-> "kimi", embedding |-> <<600, 800>>],
        [task |-> "api", agent |-> "codex", embedding |-> <<600, 800, 1000>>] >>]

IndexFiles == {Missing, Corrupt, Json(NotAnIndex), Json(Index1)}

CacheFiles == {Missing, Corrupt, Json(Cache1), Json(Cache2)}

\* what the provider may answer to one request
Responses ==
  { [kind |-> "URLError"], [kind |-> "timeout"], [kind |-> "bad_json"],
    [kind |-> "json", body |-> [error |-> "model not found"]],
    [kind |-> "json", body |-> [embedding |-> <<600, 800>>]],
    [kind |-> "json", body |-> [embedding |-> <<-600, -800>>]] }

\* the (tier, weights) arguments of the calls: the four tiers with their default
\* weights, and custom weights
CallModes ==
  { [tier |-> t, weights |-> None] : t \in {"tier1", "tier2", "tier3", "hybrid"} }
  \cup { [tier |-> "hybrid", weights |-> Some(w)] :
           w \in { <<50, 50, 0, 0>>, <<0, 0, 30, 0>>, <<0, 0, 0, 0>>,
                   <<100, 0, 30, 0>> } }
  \cup { [tier |-> "tier1", weights |-> Some(<<50, 50, 0, 0>>)] }

\* the index argument: absent, or the index the caller loaded
IndexArgs == {None, Some(Index1)}


\* the learner processes
Learners == {1, 2}

\* a process that holds no HistoricalLearner
NoLearner == [pc |-> "none"]

\* nothing learned yet
NoLearning ==
  [updates |-> <<>>, save_failures |-> 0, crashes |-> 0, operations |-> 0]


\* no completion applied yet
NoSeries == [kind |-> "None"]


\* the task queue is not in use
NoQueue == [kind |-> "None"]


\* the voting system is not in use
NoVoting == [kind |-> "None"]


\* the session file is not in use
NoSync == [kind |-> "None"]


VARIABLES
  pc,              \* where the route call stands: idle, load, embed, signals,
                   \* blend, done (returned), raised (an exception left route)
  call,            \* the arguments of the call
  loc,             \* the local variables of route
  result,          \* what the call returned, or the exception that left it
  response,        \* the provider's answer to this call's request, if one was made
  provider_calls,  \* requests made to the provider by this call
  index_file,      \* INDEX_PATH
  cache_file,      \* EMBEDDING_CACHE
  progress_file,   \* the cache builder's progress record
  profiles_file,   \* the agent profile store
  learning_log,    \* the learning log
  disk_at_call,    \* the five files as they were when the call started
  prev,            \* an earlier call and its outcome, kept for comparison
  training_file,   \* TRAINING_PATH of the cache builder
  b_pc,            \* where the run of build_cache stands
  b_loc,           \* the local variables of build_cache
  b_hist,          \* what the runs of build_cache did: provider requests, files
                   \* at the start, how the run before ended
  learner,         \* the learner processes: each one's HistoricalLearner object
                   \* (its engine's profiles, its learning log) and where it stands
  l_hist,          \* what the learners did: profile updates made, per agent and
                   \* per task_id, save failures, crashes, operations started
  cm,              \* two completion records applied to one profile in both orders
  series,          \* completions applied one after another to a seeded profile
  queue,           \* the task queue: its directories, the state file, the clock
  voting,          \* the votes directories, the registered agents, the clock
  sync             \* the active session file, its temporary file, the clock, the callers

\* the state of build_cache
builder_vars == <<training_file, b_pc, b_loc, b_hist>>

\* the state of the learners
learner_vars == <<learner, l_hist, cm>>

\* the state of the programs modelled after the learner
other_vars == <<series, queue, voting, sync>>

\* what no step of route touches
outside_route == <<builder_vars, learner_vars, other_vars>>

\* the state of a route call
route_vars == <<pc, call, loc, result, response, provider_calls, disk_at_call, prev>>

vars ==
  <<pc, call, loc, result, response, provider_calls, index_file, cache_file,
    progress_file, profiles_file, learning_log, disk_at_call, prev, builder_vars,
    learner_vars, other_vars>>

files == <<index_file, cache_file, progress_file, profiles_file, learning_log>>

Init ==
  /\ pc = "idle"
  /\ call = None
  /\ loc = None
  /\ result = None
  /\ response = None
  /\ provider_calls = 0
  /\ index_file \in IndexFiles
  /\ cache_file \in CacheFiles
  /\ progress_file = Missing
  /\ profiles_file = Missing
  /\ learning_log = Missing
  /\ disk_at_call = None
  /\ prev = None
  /\ training_file = Missing
  /\ b_pc = "idle"
  /\ b_loc = None
  /\ b_hist = None
  /\ learner = [p \in Learners |-> NoLearner]
  /\ l_hist = NoLearning
  /\ cm = None
  /\ series = NoSeries
  /\ queue = NoQueue
  /\ voting = NoVoting
  /\ sync = NoSync

\* lines 409-438: entry, default weights
Enter(task, mode, index) ==
  /\ call' = [task |-> task, tier |-> mode.tier, weights |-> mode.weights,
              index |-> index]
  /\ loc' = [tier |-> mode.tier,
             w |-> IF mode.weights = None THEN default_weights(mode.tier)
                   ELSE mode.weights.val,
             index |-> index, embed_scores |-> None, kw_scores |-> None,
             tfidf_scores |-> None, cx_scores |-> None, final_scores |-> None,
             gate |-> None]
  /\ result' = None
  /\ response' = None
  /\ provider_calls' = 0
  /\ disk_at_call' = Some(files)
  /\ pc' = "load"
  /\ UNCHANGED files
  /\ UNCHANGED outside_route

RouteCall ==
  /\ pc = "idle"
  /\ prev = None
  /\ \E task \in Tasks, mode \in CallModes, index \in IndexArgs :
       Enter(task, mode, index)
  /\ UNCHANGED prev

\* a loader that builds and saves the index when the file is missing
RouteLoadIndexBuilding ==
  /\ pc = "load"
  /\ IF loc.index = None /\ loc.w[3] > 0
     THEN IF exists(index_file)
          THEN LET loaded == json_loads(index_file)
               IN IF loaded.kind = "raise"
                  THEN /\ pc' = "raised"
                       /\ result' = loaded
                       /\ loc' = loc
                       /\ index_file' = index_file
                  ELSE /\ pc' = "embed"
                       /\ result' = result
                       /\ loc' = [loc EXCEPT !.index = loaded]
                       /\ index_file' = index_file
          ELSE /\ pc' = "embed"
               /\ result' = result
               /\ loc' = [loc EXCEPT !.index = Some(Index1)]
               /\ index_file' = Json(Index1)
     ELSE /\ pc' = "embed"
          /\ result' = result
          /\ loc' = loc
          /\ index_file' = index_file
  /\ UNCHANGED <<call, response, provider_calls, cache_file, progress_file,
                 profiles_file, learning_log, disk_at_call, prev>>
  /\ UNCHANGED outside_route

\* lines 440-448: load the index if needed
RouteLoadIndex ==
  /\ pc = "load"
  /\ IF loc.index = None /\ loc.w[3] > 0
     THEN IF exists(index_file)
          THEN LET loaded == json_loads(index_file)
               IN IF loaded.kind = "raise"
                  THEN /\ pc' = "raised"
                       /\ result' = loaded
                       /\ loc' = loc
                  ELSE /\ pc' = "embed"
                       /\ result' = result
                       /\ loc' = [loc EXCEPT !.index = loaded]
          ELSE /\ pc' = "embed"
               /\ result' = result
               /\ loc' = IF loc.w[2] = 0 /\ loc.w[1] = 0
                         THEN [loc EXCEPT !.tier = "tier3",
                                          !.w = <<loc.w[1], 100, 0, loc.w[4]>>]
                         ELSE loc
     ELSE /\ pc' = "embed"
          /\ result' = result
          /\ loc' = loc
  /\ UNCHANGED <<call, response, provider_calls, files, disk_at_call, prev>>
  /\ UNCHANGED outside_route

\* line 451: the embedding signal; the one place where the provider is asked
RouteEmbed ==
  /\ pc = "embed"
  /\ IF loc.w[1] > 0
     THEN IF calls_provider(cache_file)
          THEN \E answer \in Responses :
                 /\ response' = Some(answer)
                 /\ provider_calls' = provider_calls + 1
                 /\ loc' = [loc EXCEPT !.embed_scores =
                              get_ollama_similarities(cache_file, answer)]
          ELSE /\ loc' = [loc EXCEPT !.embed_scores = None]
               /\ UNCHANGED <<response, provider_calls>>
     ELSE UNCHANGED <<loc, response, provider_calls>>
  /\ pc' = "signals"
  /\ UNCHANGED <<call, result, files, disk_at_call, prev>>
  /\ UNCHANGED outside_route

\* lines 452-454: keyword, TF-IDF and complexity signals
RouteSignals ==
  /\ pc = "signals"
  /\ LET kw_scores ==
           IF loc.w[2] > 0 THEN Some(get_keyword_scores(call.task)) ELSE None
         tfidf_scores ==
           IF loc.w[3] > 0 /\ Truthy(loc.index)
           THEN tfidf_scores_of(call.task, loc.index.val, TOP_K)
           ELSE None
         cx_scores ==
           IF loc.w[4] > 0 THEN Some(get_complexity_scores(call.task)) ELSE None
     IN IF tfidf_scores.kind = "raise"
        THEN /\ pc' = "raised"
             /\ result' = tfidf_scores
             /\ loc' = [loc EXCEPT !.kw_scores = kw_scores]
        ELSE /\ pc' = "blend"
             /\ result' = result
             /\ loc' = [loc EXCEPT !.kw_scores = kw_scores,
                                   !.tfidf_scores = tfidf_scores,
                                   !.cx_scores = cx_scores]
  /\ UNCHANGED <<call, response, provider_calls, files, disk_at_call, prev>>
  /\ UNCHANGED outside_route

\* a blend whose winner is any of the agents with the maximal score, as it would
\* be if the scores were walked in an order that varies from call to call
RouteBlendAnyMax ==
  /\ pc = "blend"
  /\ LET no_embedding == loc.w[1] > 0 /\ loc.embed_scores = None
         w == IF no_embedding /\ loc.w[2] > 0 THEN <<0, 80, 20, loc.w[4]>>
              ELSE loc.w
         tier == IF no_embedding /\ loc.w[2] > 0 THEN "tier2-keyword-fallback"
                 ELSE loc.tier
         final_scores ==
           blend(w, loc.embed_scores, loc.kw_scores, loc.tfidf_scores,
                 loc.cx_scores)
     IN IF no_embedding /\ ~(loc.w[2] > 0)
        THEN /\ result' = Some(error_result)
             /\ loc' = loc
        ELSE \E winner \in {a \in Agents :
                               final_scores[a] = MaxOver(final_scores, Agents)} :
               /\ result' = Some(match_result(tier, w, final_scores,
                                              gate_from(winner, final_scores)))
               /\ loc' = [loc EXCEPT !.tier = tier, !.w = w,
                                     !.final_scores = Some(final_scores),
                                     !.gate = Some(gate_from(winner, final_scores))]
  /\ pc' = "done"
  /\ UNCHANGED <<call, response, provider_calls, files, disk_at_call, prev>>
  /\ UNCHANGED outside_route

\* lines 456-544: fallback for a missing embedding, blend, threshold gate, result
RouteBlend ==
  /\ pc = "blend"
  /\ LET no_embedding == loc.w[1] > 0 /\ loc.embed_scores = None
         w == IF no_embedding /\ loc.w[2] > 0 THEN <<0, 80, 20, loc.w[4]>>
              ELSE loc.w
         tier == IF no_embedding /\ loc.w[2] > 0 THEN "tier2-keyword-fallback"
                 ELSE loc.tier
         final_scores ==
           blend(w, loc.embed_scores, loc.kw_scores, loc.tfidf_scores,
                 loc.cx_scores)
         gate == threshold_gate(final_scores)
     IN IF no_embedding /\ ~(loc.w[2] > 0)
        THEN /\ result' = Some(error_result)
             /\ loc' = loc
        ELSE /\ result' = Some(match_result(tier, w, final_scores, gate))
             /\ loc' = [loc EXCEPT !.tier = tier, !.w = w,
                                   !.final_scores = Some(final_scores),
                                   !.gate = Some(gate)]
  /\ pc' = "done"
  /\ UNCHANGED <<call, response, provider_calls, files, disk_at_call, prev>>
  /\ UNCHANGED outside_route

\* the caller has the result (or the exception); the next call may start
RouteReturn ==
  /\ pc \in {"done", "raised"}
  /\ pc' = "idle"
  /\ call' = None
  /\ loc' = None
  /\ result' = None
  /\ response' = None
  /\ provider_calls' = 0
  /\ disk_at_call' = None
  /\ UNCHANGED <<files, prev>>
  /\ UNCHANGED outside_route

\* the caller keeps the outcome of a call to compare a later call with it
RouteRemember ==
  /\ pc \in {"done", "raised"}
  /\ prev = None
  /\ prev' = Some([call |-> call, response |-> response, pc |-> pc,
                   result |-> result])
  /\ pc' = "idle"
  /\ call' = None
  /\ loc' = None
  /\ result' = None
  /\ response' = None
  /\ provider_calls' = 0
  /\ disk_at_call' = None
  /\ UNCHANGED files
  /\ UNCHANGED outside_route

\* the weights a call made in `mode` asks for
mode_weights(mode) ==
  IF mode.weights = None THEN default_weights(mode.tier) ELSE mode.weights.val

\* a second call with the task, the index argument and the weights of the call
\* remembered; the files are as they were
RouteRepeat ==
  /\ pc = "idle"
  /\ prev # None
  /\ \E mode \in CallModes :
       /\ mode_weights(mode)
            = mode_weights([tier |-> prev.val.call.tier,
                            weights |-> prev.val.call.weights])
       /\ Enter(prev.val.call.task, mode, prev.val.call.index)
  /\ UNCHANGED prev

Next ==
  \/ RouteCall
  \/ RouteLoadIndex
  \/ RouteEmbed
  \/ RouteSignals
  \/ RouteBlend
  \/ RouteReturn

Spec == Init /\ [][Next]_vars

\* two calls in a row, the second with the inputs of the first
NextRepeat ==
  \/ RouteCall
  \/ RouteLoadIndex
  \/ RouteEmbed
  \/ RouteSignals
  \/ RouteBlend
  \/ RouteRemember
  \/ RouteRepeat

SpecRepeat == Init /\ [][NextRepeat]_vars

\* ---------------------------------------------------------------------------
\* Properties of route

\* The weights the call asks for: the caller's, or the defaults of its tier.
requested == IF call.weights = None THEN default_weights(call.tier) ELSE call.weights.val

\* a is the top-scoring agent: no agent scores higher, and of the agents with the
\* same score a is the earliest of the registry.
IsTop(a, s) ==
  \A b \in Agents :
    s[b] < s[a] \/ (s[b] = s[a] /\ RegistryIndex(a) <= RegistryIndex(b))

\* b is the second-ranked agent: top aside, no agent scores higher, and of the
\* agents with the same score b is the earliest of the registry.
IsSecond(b, top, s) ==
  /\ b # top
  /\ \A c \in Agents \ {top} :
       s[c] < s[b] \/ (s[c] = s[b] /\ RegistryIndex(b) <= RegistryIndex(c))

\* C1: with the default weights of any tier, whatever the index, the cache and the
\* provider, a result of route has a confidence in [0, 1] and recommends an agent
\* of the registry (the confidence of the runner-up or of the fallback agent
\* included).
C1_ConfidenceInUnitInterval ==
  (pc = "done" /\ call.weights = None) =>
    /\ result.val.confidence >= 0
    /\ result.val.confidence <= Pct(100)
    /\ result.val.recommended_agent \in Agents

\* C2: the threshold gate.  The top agent at or above its threshold is recommended
\* with no method suffix; below it, the second-ranked agent is recommended, with
\* its score as confidence and the suffix -threshold-adjusted, when it meets its
\* own threshold and trails the top by less than 0.10; in every other case the
\* fallback agent is recommended with the suffix -fallback.
C2_ThresholdGate ==
  (pc = "done" /\ loc.final_scores # None) =>
    LET s == loc.final_scores.val
        top == CHOOSE a \in Agents : IsTop(a, s)
        second == CHOOSE b \in Agents : IsSecond(b, top, s)
        r == result.val
    IN IF s[top] >= AGENT_THRESHOLDS[top]
       THEN /\ r.recommended_agent = top
            /\ r.method = <<r.tier, "-ensemble", "">>
       ELSE IF s[second] >= AGENT_THRESHOLDS[second] /\ s[top] - s[second] < Pct(10)
       THEN /\ r.recommended_agent = second
            /\ r.confidence = Round4(s[second])
            /\ r.method = <<r.tier, "-ensemble", "-threshold-adjusted">>
       ELSE /\ r.recommended_agent = FALLBACK_AGENT
            /\ r.method = <<r.tier, "-ensemble", "-fallback">>

\* A call whose winner missed its threshold and whose runner-up was adopted.
C2_Witness ==
  /\ pc = "done"
  /\ loc.final_scores # None
  /\ result.val.method[3] = "-threshold-adjusted"
  /\ result.val.recommended_agent # loc.gate.val.top

\* the embedding signal was asked for and there is none
embedding_unavailable == requested[1] > 0 /\ loc.embed_scores = None

\* none of the four signals has values that enter the blend
no_signal_in_blend ==
  /\ ~Truthy(loc.embed_scores)
  /\ ~Truthy(loc.kw_scores)
  /\ ~Truthy(loc.tfidf_scores)
  /\ ~Truthy(loc.cx_scores)

index_loaded ==
  /\ Truthy(loc.index)
  /\ "idf" \in DOMAIN loc.index.val
  /\ "documents" \in DOMAIN loc.index.val

\* the TF-IDF score of an agent, 0 for an agent that none of the nearest
\* documents names
tfidf_of(agent) ==
  LET scores == get_tfidf_scores(call.task, loc.index.val, TOP_K)
  IN IF agent \in DOMAIN scores THEN scores[agent] ELSE 0

\* C4: a call with embedding weight > 0 and keyword weight > 0 whose embedding
\* signal is unavailable reports the weights (0, 0.8, 0.2, w_cx) and a method that
\* contains tier2-keyword-fallback, and with an index loaded every agent's score is
\* 0.8*kw + 0.2*tfidf + w_cx*cx, whatever TF-IDF weight was asked for.
C4_RebalancedBlend ==
  (pc = "done" /\ embedding_unavailable /\ requested[2] > 0) =>
    /\ result.val.weights
         = [embedding |-> 0, keyword |-> 80, tfidf |-> 20,
            complexity |-> requested[4]]
    /\ result.val.method[1] = "tier2-keyword-fallback"
    /\ index_loaded =>
         \A a \in Agents :
           loc.final_scores.val[a]
             = 80 * get_keyword_scores(call.task)[a]
               + 20 * tfidf_of(a)
               + requested[4] * get_complexity_scores(call.task)[a]

\* C5: the weights a result reports are the blend that was used: with no
\* embedding similarities the embedding weight is 0, with no index the TF-IDF
\* weight is 0, and every signal with a weight above 0 has values in the blend.
C5_WeightsAreBlendUsed ==
  (pc = "done" /\ "weights" \in DOMAIN result.val) =>
    LET w == result.val.weights
    IN /\ loc.embed_scores = None => w.embedding = 0
       /\ ~Truthy(loc.index) => w.tfidf = 0
       /\ w.embedding > 0 => loc.embed_scores # None
       /\ w.keyword > 0 => loc.kw_scores # None
       /\ w.tfidf > 0 => loc.tfidf_scores # None
       /\ w.complexity > 0 => loc.cx_scores # None

\* C6: no exception leaves route, whatever the task and whatever the index file
\* and the cache file hold.
C6_NeverRaises == pc # "raised"

\* the provider was asked and its answer gave no embedding
provider_failed ==
  /\ response # None
  /\ get_ollama_embedding(response.val) = None

\* C7: after a failure of the provider the call still returns: no exception
\* reaches the caller, the provider was asked once at most, and with keyword
\* weight > 0 the result is the blend of the remaining signals.
C7_ProviderFailureAbsorbed ==
  (pc \in {"done", "raised"} /\ provider_failed) =>
    /\ pc = "done"
    /\ provider_calls <= 1
    /\ requested[2] > 0 =>
         /\ result.val.tier = "tier2-keyword-fallback"
         /\ result.val.weights.embedding = 0

\* C8: from the start of a call to its end the index file, the embedding cache,
\* the progress record, the profile store and the learning log are what they were
\* when the call started.
C8_NoExternalMutation == pc # "idle" => disk_at_call = Some(files)

\* A call that read the index file and the cache file, asked the provider and
\* returned.
C8_Witness ==
  /\ pc = "done"
  /\ call.index = None
  /\ loc.index # None
  /\ provider_calls = 1
  /\ cache_file.kind = "json"

\* the second of two calls has ended
second_call_ended == pc \in {"done", "raised"} /\ prev # None

C10_TiesByRegistryOrder ==
  (pc = "done" /\ loc.gate # None) =>
    LET s == loc.final_scores.val
        g == loc.gate.val
    IN /\ IsTop(g.top, s)
       /\ g.second # None =>
            /\ IsSecond(g.second.val, g.top, s)
            /\ g.second.val # g.top

\* A call in which two agents other than the first of the registry share the
\* maximal score and the gate looked at the runner-up.
C10_Witness ==
  /\ pc = "done"
  /\ loc.gate # None
  /\ loc.gate.val.second # None
  /\ loc.gate.val.top # "kimi"
  /\ \E b \in Agents \ {loc.gate.val.top} :
       loc.final_scores.val[b] = loc.final_scores.val[loc.gate.val.top]

\* the dimensions of the vectors of the cache file
cache_dimensions ==
  IF cache_file.kind = "json" /\ "embeddings" \in DOMAIN cache_file.val
  THEN {Len(cache_file.val.embeddings[i].embedding) :
          i \in 1..Len(cache_file.val.embeddings)}
  ELSE {}

\* the provider gave an embedding for the task, and the vectors of the cache do
\* not all have its dimension
dimension_mismatch ==
  /\ response # None
  /\ get_ollama_embedding(response.val) # None
  /\ cache_dimensions # {}
  /\ cache_dimensions # {Len(get_ollama_embedding(response.val).val)}

\* C14: when the vectors of the cache differ in dimension from each other or from
\* the embedding of the task, route takes no embedding similarity from the cache
\* and falls back to the other signals, as it does when the embedding is
\* unavailable.
C14_DimensionMismatchInvalidatesCache ==
  (pc = "done" /\ requested[1] > 0 /\ dimension_mismatch) =>
    /\ loc.embed_scores = None
    /\ result.val.tier \in {"tier2-keyword-fallback", "error"}

\* ---------------------------------------------------------------------------
\* The embedding cache builder of scripts/build_ollama_cache.py
\*
\* A run of build_cache is a process of its own: it reads the training data,
\* the cache file and the progress file, asks the provider for one embedding per
\* unprocessed sample and writes the two files every BATCH_SAVE_INTERVAL samples
\* and at its end.  Path.write_text opens the file for writing, which empties it,
\* and then writes the text: a write is two steps, and between them the file holds
\* no JSON.  A run can be interrupted between any two steps.

BATCH_SAVE_INTERVAL == 5

\* the training data: six samples with six task texts
TrainingData ==
  << [task |-> "t1", agent |-> "kimi"], [task |-> "t2", agent |-> "claude"],
     [task |-> "t3", agent |-> "copilot"], [task |-> "t4", agent |-> "codex"],
     [task |-> "t5", agent |-> "ollama"], [task |-> "t6", agent |-> "kimi"] >>

\* training data in which one task text occurs twice
TrainingDataRepeat ==
  << [task |-> "t1", agent |-> "kimi"], [task |-> "t2", agent |-> "claude"],
     [task |-> "t1", agent |-> "claude"] >>

\* what the provider may answer to a request of the builder
BuildResponses ==
  { [kind |-> "URLError"],
    [kind |-> "json", body |-> [embedding |-> <<600, 800>>]] }

\* the max_samples argument
MaxSamplesArgs == {None, Some(2)}

\* provider failures the model lets happen in one run
MaxFailures == 1

\* lines 23-37
build_get_ollama_embedding(answer) ==
  IF answer.kind \in ProviderFailures THEN None
  ELSE IF "embedding" \in DOMAIN answer.body THEN Some(answer.body.embedding)
  ELSE None

\* `if embedding:`
embedding_truthy(e) == e.kind = "value" /\ e.val # <<>>

\* lines 47-54
load_existing_cache(file) ==
  IF exists(file) /\ json_loads(file).kind = "value" THEN json_loads(file).val
  ELSE [embeddings |-> <<>>]

\* lines 57-64
load_progress(file) ==
  IF exists(file) /\ json_loads(file).kind = "value" THEN json_loads(file).val
  ELSE [completed |-> <<>>, failed |-> <<>>, last_run |-> None]

\* the set of the elements of a sequence
Range(s) == {s[i] : i \in 1..Len(s)}

\* {item["task"] for item in cache["embeddings"]}
cache_tasks(cache) == {cache.embeddings[i].task : i \in 1..Len(cache.embeddings)}

\* the task texts that have an entry in the cache file
cached_on_disk(file) == cache_tasks(load_existing_cache(file))

\* lines 87-100: what a run of build_cache starts with
build_locals(resume, max_samples) ==
  LET training_data == json_loads(training_file).val
      cache == IF resume THEN load_existing_cache(cache_file)
               ELSE [embeddings |-> <<>>]
      progress == IF resume THEN load_progress(progress_file)
                  ELSE [completed |-> <<>>, failed |-> <<>>, last_run |-> None]
      completed_tasks == cache_tasks(cache) \cup Range(progress.completed)
      unprocessed ==
        SelectSeq(training_data, LAMBDA item : item.task \notin completed_tasks)
      to_process ==
        IF max_samples # None /\ max_samples.val # 0
        THEN SubSeq(unprocessed, 1, Min(max_samples.val, Len(unprocessed)))
        ELSE unprocessed
  IN [cache |-> cache, progress |-> progress, completed_tasks |-> completed_tasks,
      to_process |-> to_process, i |-> 1, processed_count |-> 0,
      new_embeddings |-> <<>>, embedding |-> None, final |-> FALSE]

\* the record of a run that starts: its number (the clock of the timestamps),
\* its arguments, the two files as it finds them, and how the run before ended
build_history(resume, max_samples) ==
  [run |-> IF b_hist = None THEN 1 ELSE b_hist.run + 1,
   resume |-> resume, max_samples |-> max_samples,
   asked |-> <<>>, obtained |-> {}, failures |-> 0, lost |-> {},
   cache_at_start |-> cache_file, progress_at_start |-> progress_file,
   before |-> IF b_hist = None THEN None
              ELSE Some([outcome |-> b_pc, resume |-> b_hist.resume,
                         max_samples |-> b_hist.max_samples,
                         asked |-> b_hist.asked, lost |-> b_hist.lost])]


\* a run may start when no run is under way; the model follows a first run and
\* the run after it
BuildStart ==
  /\ b_pc \in {"idle", "done", "interrupted", "raised"}
  /\ IF b_hist = None THEN TRUE ELSE b_hist.before = None
  /\ \E resume \in BOOLEAN, max_samples \in MaxSamplesArgs :
       /\ b_hist' = build_history(resume, max_samples)
       /\ IF ~exists(training_file)
          THEN /\ b_pc' = "raised"
               /\ b_loc' = None
          ELSE LET locals == build_locals(resume, max_samples)
               IN /\ b_loc' = locals
                  /\ b_pc' = IF locals.to_process = <<>> THEN "done" ELSE "embed"
  /\ UNCHANGED <<training_file, route_vars, learner_vars, other_vars, files>>

\* line 122: the request for the embedding of the current item
BuildEmbed ==
  /\ b_pc = "embed"
  /\ \E answer \in BuildResponses :
       LET embedding == build_get_ollama_embedding(answer)
           item == b_loc.to_process[b_loc.i]
       IN /\ embedding_truthy(embedding) \/ b_hist.failures < MaxFailures
          /\ b_loc' = [b_loc EXCEPT !.embedding = embedding]
          /\ b_hist' =
               [b_hist EXCEPT
                  !.asked = Append(@, item.task),
                  !.obtained = IF embedding_truthy(embedding)
                               THEN @ \cup {item.task} ELSE @,
                  !.failures = IF embedding_truthy(embedding) THEN @ ELSE @ + 1]
  /\ b_pc' = "record"
  /\ UNCHANGED <<training_file, route_vars, learner_vars, other_vars, files>>

\* lines 150-154: after the last item, what is not yet in the cache joins it and
\* the run is stamped
final_locals(l) ==
  [l EXCEPT !.cache.embeddings = @ \o l.new_embeddings,
            !.progress.last_run = Some(b_hist.run),
            !.final = TRUE]

\* lines 124-144: the outcome of the request is recorded; every
\* BATCH_SAVE_INTERVAL items, and after the last one, the files are written
BuildRecord ==
  /\ b_pc = "record"
  /\ LET item == b_loc.to_process[b_loc.i]
         recorded ==
           IF embedding_truthy(b_loc.embedding)
           THEN [b_loc EXCEPT
                   !.new_embeddings =
                     Append(@, [task |-> item.task, agent |-> item.agent,
                                embedding |-> b_loc.embedding.val]),
                   !.completed_tasks = @ \cup {item.task},
                   !.progress.completed = Append(@, item.task),
                   !.processed_count = @ + 1]
           ELSE [b_loc EXCEPT
                   !.progress.failed =
                     Append(@, [task |-> item.task, timestamp |-> b_hist.run]),
                   !.processed_count = @ + 1]
         last == b_loc.i = Len(b_loc.to_process)
     IN IF recorded.processed_count % BATCH_SAVE_INTERVAL = 0
        THEN /\ b_loc' = [recorded EXCEPT
                            !.cache.embeddings = @ \o recorded.new_embeddings]
             /\ b_pc' = "save_cache"
        ELSE IF last
        THEN /\ b_loc' = final_locals(recorded)
             /\ b_pc' = "save_cache"
        ELSE /\ b_loc' = [recorded EXCEPT !.i = @ + 1]
             /\ b_pc' = "embed"
  /\ UNCHANGED <<training_file, b_hist, route_vars, learner_vars, other_vars, files>>

\* lines 67-70, first half: CACHE_PATH is opened for writing and is empty
BuildSaveCacheOpen ==
  /\ b_pc = "save_cache"
  /\ cache_file' = Corrupt
  /\ b_pc' = "write_cache"
  /\ UNCHANGED <<training_file, b_loc, b_hist, route_vars, learner_vars, other_vars, index_file,
                 progress_file, profiles_file, learning_log>>

\* lines 67-70, second half: the text of the cache is in the file
BuildSaveCacheWrite ==
  /\ b_pc = "write_cache"
  /\ cache_file' = Json(b_loc.cache)
  /\ b_pc' = "save_progress"
  /\ UNCHANGED <<training_file, b_loc, b_hist, route_vars, learner_vars, other_vars, index_file,
                 progress_file, profiles_file, learning_log>>

\* lines 73-76, first half
BuildSaveProgressOpen ==
  /\ b_pc = "save_progress"
  /\ progress_file' = Corrupt
  /\ b_pc' = "write_progress"
  /\ UNCHANGED <<training_file, b_loc, b_hist, route_vars, learner_vars, other_vars, index_file, cache_file,
                 profiles_file, learning_log>>

\* lines 73-76, second half, and what follows the save: line 147 and the next
\* item after a periodic save, the final save after the last item, the return
\* after the final save
BuildSaveProgressWrite ==
  /\ b_pc = "write_progress"
  /\ progress_file' = Json(b_loc.progress)
  /\ IF b_loc.final
     THEN /\ b_pc' = "done"
          /\ b_loc' = b_loc
     ELSE IF b_loc.i = Len(b_loc.to_process)
     THEN /\ b_pc' = "save_cache"
          /\ b_loc' = final_locals([b_loc EXCEPT !.new_embeddings = <<>>])
     ELSE /\ b_pc' = "embed"
          /\ b_loc' = [b_loc EXCEPT !.new_embeddings = <<>>, !.i = @ + 1]
  /\ UNCHANGED <<training_file, b_hist, route_vars, learner_vars, other_vars, index_file, cache_file,
                 profiles_file, learning_log>>

\* the run is interrupted (a signal, a crash): its locals are gone, the files
\* stay as they are.  `lost` keeps the task texts whose embedding the run had
\* obtained and that have no entry in the cache file.
BuildInterrupt ==
  /\ b_pc \in {"embed", "record", "save_cache", "write_cache", "save_progress",
               "write_progress"}
  /\ b_pc' = "interrupted"
  /\ b_loc' = None
  /\ b_hist' = [b_hist EXCEPT !.lost = b_hist.obtained \ cached_on_disk(cache_file)]
  /\ UNCHANGED <<training_file, route_vars, learner_vars, other_vars, files>>

InitBuild ==
  /\ pc = "idle"
  /\ call = None
  /\ loc = None
  /\ result = None
  /\ response = None
  /\ provider_calls = 0
  /\ disk_at_call = None
  /\ prev = None
  /\ index_file = Missing
  /\ cache_file = Missing
  /\ progress_file = Missing
  /\ profiles_file = Missing
  /\ learning_log = Missing
  /\ training_file \in {Missing, Json(TrainingData), Json(TrainingDataRepeat)}
  /\ b_pc = "idle"
  /\ b_loc = None
  /\ b_hist = None
  /\ learner = [p \in Learners |-> NoLearner]
  /\ l_hist = NoLearning
  /\ cm = None
  /\ series = NoSeries
  /\ queue = NoQueue
  /\ voting = NoVoting
  /\ sync = NoSync

NextBuild ==
  \/ BuildStart
  \/ BuildEmbed
  \/ BuildRecord
  \/ BuildSaveCacheOpen
  \/ BuildSaveCacheWrite
  \/ BuildSaveProgressOpen
  \/ BuildSaveProgressWrite
  \/ BuildInterrupt

SpecBuild == InitBuild /\ [][NextBuild]_vars

\* ---------------------------------------------------------------------------
\* Properties of build_cache

\* the task texts the progress file records as failed
failed_on_disk(file) ==
  {load_progress(file).failed[i].task : i \in 1..Len(load_progress(file).failed)}

\* the task texts the progress file records as completed
completed_on_disk(file) == Range(load_progress(file).completed)

\* a run over the whole training data, in resume mode, that came after such a
\* run that had ended by itself
second_full_run ==
  /\ b_hist # None
  /\ b_hist.before # None
  /\ b_hist.resume
  /\ b_hist.max_samples = None
  /\ b_hist.before.val.outcome = "done"
  /\ b_hist.before.val.resume
  /\ b_hist.before.val.max_samples = None

\* C11: a run in resume mode that follows a completed run in resume mode on the
\* same training data asks the provider for nothing and leaves the entries of the
\* cache file as they were.
C11_SecondRunDoesNothing ==
  second_full_run =>
    /\ b_hist.asked = <<>>
    /\ b_pc = "done" =>
         load_existing_cache(cache_file).embeddings
           = load_existing_cache(b_hist.cache_at_start).embeddings

\* C12: a run in resume mode asks the provider for no task text that had, when the
\* run started, an entry in the cache file or a record in the progress file, be it
\* as completed or as failed.
C12_ResumeSkipsProcessed ==
  (b_hist # None /\ b_hist.resume) =>
    \A t \in Range(b_hist.asked) :
      /\ t \notin cached_on_disk(b_hist.cache_at_start)
      /\ t \notin completed_on_disk(b_hist.progress_at_start)
      /\ t \notin failed_on_disk(b_hist.progress_at_start)

\* the provider is asked for the samples in the order of the training data
asked_in_corpus_order ==
  \A i, j \in 1..Len(b_hist.asked) :
    i < j =>
      \E m, n \in 1..Len(TrainingData) :
        /\ m < n
        /\ TrainingData[m].task = b_hist.asked[i]
        /\ TrainingData[n].task = b_hist.asked[j]

\* C13: the samples are processed in the order of the training data; when a run
\* is interrupted, at most BATCH_SAVE_INTERVAL - 1 task texts whose embedding the
\* run had obtained have no entry in the cache file; and the resumed run asks the
\* provider again for those only.
C13_InterruptLosesLessThanBatch ==
  b_hist # None =>
    /\ asked_in_corpus_order
    /\ b_pc = "interrupted" =>
         Cardinality(b_hist.lost) <= BATCH_SAVE_INTERVAL - 1
    /\ (b_hist.before # None /\ b_hist.resume) =>
         (b_hist.before.val.outcome = "interrupted" =>
            \A t \in Range(b_hist.asked) :
              t \in Range(b_hist.before.val.asked) => t \in b_hist.before.val.lost)

\* ---------------------------------------------------------------------------
\* The learner: .federation/predictor (feature_extractor.py,
\* similarity_engine.py, historical_learner.py) and MLRouter.update_from_completion
\* of scripts/route_task_ml.py.
\*
\* Numbers.  success_rate is held in units of 1/RATE, avg_task_duration in
\* units of 1/SCALE minutes, the weights of task vectors and capability
\* vectors in units of 1/SCALE.  Divisions truncate.
\*
\* Strings.  A description is a record: its text and `words`, what
\* re.findall(r'\b[a-zA-Z]+\b', text.lower()) finds, in order.
\*
\* A profile is held by the fields an update changes (success_rate,
\* avg_task_duration, task_count, capability_vector); emoji, specialty,
\* domains and keywords never change after the seed.

RATE == 1000 * 1000

FE_STOP_WORDS ==
  {
    "a", "afraid", "after", "again", "age", "ago", "agree", "air",
    "allow", "almost", "along", "also", "always", "am", "among", "an",
    "and", "anger", "another", "any", "apple", "are", "arm", "around",
    "arrange", "arrive", "as", "asked", "at", "atom", "away", "baby",
    "back", "bad", "ball", "band", "bank", "bar", "basic", "bat", "be",
    "bear", "beat", "because", "bed", "began", "believe", "bell", "below",
    "between", "big", "block", "blood", "blow", "blue", "board", "boat",
    "bone", "born", "both", "bottom", "bought", "branch", "bread",
    "break", "bright", "bring", "broad", "broke", "brother", "brought",
    "brown", "built", "burn", "busy", "but", "buy", "by", "came", "camp",
    "capital", "captain", "card", "case", "cat", "catch", "caught",
    "cell", "cent", "century", "chair", "chance", "character", "charge",
    "chart", "check", "chick", "chief", "child", "choose", "chord",
    "circle", "claim", "clean", "climb", "clock", "clothes", "cloud",
    "coast", "coat", "collect", "colony", "column", "come", "common",
    "company", "compare", "condition", "connect", "consider", "consonant",
    "continent", "continue", "control", "cook", "cool", "copy", "corn",
    "corner", "cost", "cotton", "count", "course", "cow", "crease",
    "create", "crop", "crowd", "current", "cut", "dad", "dance", "danger",
    "day", "dead", "deal", "dear", "death", "decide", "decimal", "deep",
    "degree", "depend", "describe", "desert", "design", "determine",
    "dictionary", "die", "different", "difficult", "discuss", "distant",
    "divide", "division", "do", "doctor", "does", "dollar", "dont",
    "double", "dream", "dress", "drink", "drop", "dry", "duck", "each",
    "ear", "earth", "east", "edge", "effect", "egg", "eight", "either",
    "electric", "element", "else", "end", "enemy", "energy", "engine",
    "enter", "equal", "equate", "especially", "even", "evening", "event",
    "every", "exact", "except", "excite", "exercise", "expect",
    "experience", "experiment", "fair", "famous", "fat", "father",
    "favor", "fear", "feed", "fell", "felt", "few", "fig", "fight",
    "fill", "finger", "finish", "fit", "flat", "floor", "flow", "flower",
    "foot", "for", "force", "forest", "forward", "found", "fraction",
    "fresh", "from", "fruit", "full", "fun", "game", "garden", "gas",
    "gather", "general", "gentle", "get", "give", "glad", "glass", "go",
    "gold", "gone", "good", "got", "grand", "grass", "gray", "great",
    "grew", "grow", "guess", "guide", "gun", "had", "hair", "hand",
    "happy", "has", "hat", "have", "he", "head", "heart", "heat", "heavy",
    "held", "help", "her", "here", "hill", "him", "history", "hit",
    "hole", "home", "hope", "hot", "house", "how", "huge", "human",
    "hunt", "hurry", "ice", "if", "imagine", "in", "include", "indicate",
    "industry", "insect", "instant", "instrument", "into", "invent",
    "iron", "is", "island", "it", "its", "job", "join", "joy", "jump",
    "just", "kept", "key", "kill", "kind", "knew", "lady", "lake",
    "language", "large", "last", "laugh", "least", "led", "left", "leg",
    "length", "level", "lie", "lift", "like", "line", "liquid", "live",
    "locate", "log", "lone", "look", "lost", "lot", "loud", "magnet",
    "major", "make", "many", "market", "mass", "master", "match",
    "material", "matter", "me", "meant", "meat", "meet", "melody", "men",
    "metal", "method", "middle", "might", "milk", "million", "mine",
    "miss", "mix", "modern", "molecule", "moment", "month", "moon",
    "more", "most", "motion", "mount", "mouth", "move", "much", "must",
    "name", "nation", "natural", "nature", "necessary", "neck",
    "neighbor", "never", "new", "next", "nine", "noise", "noon", "nor",
    "nose", "number", "object", "observe", "occur", "of", "off", "offer",
    "office", "often", "oil", "old", "on", "operate", "opposite", "organ",
    "original", "our", "out", "own", "oxygen", "page", "paint", "pair",
    "paragraph", "parent", "part", "particular", "party", "past", "path",
    "pay", "perhaps", "period", "phrase", "pick", "pitch", "place",
    "plane", "planet", "please", "plural", "poem", "poor", "populate",
    "position", "possible", "post", "practice", "prepare", "present",
    "pretty", "print", "probable", "process", "proper", "property",
    "protect", "prove", "provide", "push", "put", "quart", "quiet",
    "quite", "quotient", "race", "radio", "rail", "raise", "ran", "range",
    "rather", "read", "reason", "receive", "record", "region", "repeat",
    "reply", "represent", "require", "result", "rich", "ride", "right",
    "ring", "rise", "roll", "root", "rope", "rose", "row", "rub", "safe",
    "said", "sail", "salt", "sand", "sat", "save", "saw", "say", "scale",
    "score", "search", "season", "seat", "section", "seed", "segment",
    "select", "sell", "send", "sense", "sent", "separate", "set",
    "settle", "seven", "shall", "shape", "share", "sharp", "she", "sheet",
    "shell", "shine", "shoe", "shop", "shore", "should", "shoulder",
    "shout", "show", "sight", "sign", "silent", "silver", "similar",
    "single", "sister", "sit", "size", "skill", "skin", "sky", "slave",
    "sleep", "slip", "small", "smell", "smile", "snow", "so", "soft",
    "soil", "soldier", "solution", "solve", "some", "something", "son",
    "sound", "speak", "speech", "speed", "spend", "spoke", "spot",
    "spread", "spring", "square", "stand", "station", "stay", "stead",
    "steam", "steel", "stick", "still", "stone", "store", "straight",
    "strange", "stream", "stretch", "string", "student", "subject",
    "substance", "subtract", "success", "such", "sudden", "suffix",
    "sugar", "suggest", "suit", "summer", "supply", "support", "surface",
    "surprise", "swim", "syllable", "symbol", "system", "take", "tall",
    "team", "teeth", "tell", "temperature", "term", "test", "thank",
    "that", "the", "their", "them", "then", "these", "they", "thick",
    "thin", "things", "think", "third", "this", "those", "thought",
    "thousands", "three", "through", "throw", "thus", "tie", "tiny",
    "tire", "to", "together", "tone", "too", "tool", "total", "touch",
    "track", "trade", "train", "triangle", "trip", "trouble", "truck",
    "try", "tube", "turned", "twenty", "two", "type", "under", "up", "us",
    "valley", "value", "vary", "very", "view", "village", "visit", "wall",
    "was", "wash", "wave", "wear", "weather", "weight", "well", "went",
    "what", "wheel", "where", "whether", "which", "while", "whose", "why",
    "wide", "wife", "wild", "will", "win", "window", "wing", "winter",
    "wire", "wish", "with", "woman", "women", "wonder", "wont", "words",
    "work", "would", "write", "written", "wrong", "wrote", "yard",
    "years", "yellow", "yes", "yet" }

\* feature_extractor.py tokenize
fe_tokenize(description) ==
  SelectSeq(description.words, LAMBDA w : w \notin FE_STOP_WORDS /\ Len(w) > 2)

\* '_'.join(tokens[i:i+n])
RECURSIVE join_tokens(_, _, _)
join_tokens(tokens, i, n) ==
  IF n = 1 THEN tokens[i]
  ELSE tokens[i] \o "_" \o join_tokens(tokens, i + 1, n - 1)

extract_ngrams(tokens, n) ==
  IF Len(tokens) < n THEN <<>>
  ELSE [i \in 1..(Len(tokens) - n + 1) |-> join_tokens(tokens, i, n)]

\* Counter(tokens)[term]
count_of(tokens, term) == Cardinality({i \in 1..Len(tokens) : tokens[i] = term})

\* the empty dict
EmptyDict == [term \in {} |-> 0]

compute_tf(tokens) ==
  IF tokens = <<>> THEN EmptyDict
  ELSE LET terms == {tokens[i] : i \in 1..Len(tokens)}
           max_count == CHOOSE m \in {count_of(tokens, t) : t \in terms} :
                          \A t \in terms : count_of(tokens, t) <= m
       IN [t \in terms |-> (count_of(tokens, t) * SCALE) \div max_count]

\* self.idf_cache.get(term, 1.0): no IDF cache has been built, every term is unseen
idf_cache_get(term) == SCALE

vectorize(description) ==
  LET tokens == fe_tokenize(description)
      all_terms == tokens \o extract_ngrams(tokens, 2) \o extract_ngrams(tokens, 3)
      tf == compute_tf(all_terms)
  IN [term \in DOMAIN tf |-> (tf[term] * idf_cache_get(term)) \div SCALE]

\* keywords and domains as written; specialty is definition["specialty"].lower().split()
AGENT_DEFINITIONS ==
  [claude |->
     [specialty |-> <<"research", "&", "analysis">>,
      keywords |-> <<"research", "analyze", "architecture", "design", "document",
                     "investigate", "explore", "study", "review", "assess",
                     "evaluate", "recommend", "strategy", "planning", "structure">>,
      domains |-> <<"research", "design", "documentation", "architecture">>,
      base_success_rate |-> 920000],
   kimi |->
     [specialty |-> <<"execution">>,
      keywords |-> <<"implement", "code", "build", "develop", "create", "write",
                     "fix", "debug", "test", "deploy", "script", "configure",
                     "setup", "install", "run", "execute", "automate">>,
      domains |-> <<"implementation", "testing", "deployment">>,
      base_success_rate |-> 940000],
   copilot |->
     [specialty |-> <<"thinking", "&", "planning">>,
      keywords |-> <<"plan", "think", "structure", "organize", "review",
                     "check", "validate", "verify", "improve", "refactor",
                     "suggest", "advise", "coordinate", "facilitate">>,
      domains |-> <<"planning", "review">>,
      base_success_rate |-> 880000],
   ollama |->
     [specialty |-> <<"local", "drafting">>,
      keywords |-> <<"draft", "prototype", "experiment", "try", "sketch",
                     "outline", "mockup", "template", "sample", "example">>,
      domains |-> <<"drafting", "prototyping">>,
      base_success_rate |-> 750000]]

ProfiledAgents == DOMAIN AGENT_DEFINITIONS

\* later assignments win: specialty terms over domains over keywords
build_capability_vector(definition) ==
  LET keywords == Range(definition.keywords)
      domains == Range(definition.domains)
      specialty == Range(definition.specialty) \ {"&"}
  IN [term \in keywords \cup domains \cup specialty |->
        IF term \in specialty THEN (9 * SCALE) \div 10
        ELSE IF term \in domains THEN (8 * SCALE) \div 10
        ELSE SCALE]

\* _load_profiles, lines 121-132: the profiles of a store that does not exist yet
seed_profiles ==
  [agent_id \in ProfiledAgents |->
     [capability_vector |-> build_capability_vector(AGENT_DEFINITIONS[agent_id]),
      success_rate |-> AGENT_DEFINITIONS[agent_id].base_success_rate,
      avg_task_duration |-> 30 * SCALE,
      task_count |-> 0]]

\* a variant of lines 296-326 that replaces the average duration by the last one
update_profile_last_duration(profile, description, success, duration_minutes) ==
  LET task_count == profile.task_count + 1
      success_val == IF success THEN RATE ELSE 0
      task_vector == vectorize(description)
      old == profile.capability_vector
  IN [task_count |-> task_count,
      success_rate |-> (9 * profile.success_rate + 1 * success_val) \div 10,
      avg_task_duration |-> duration_minutes,
      capability_vector |->
        [term \in DOMAIN old \cup DOMAIN task_vector |->
           IF term \notin DOMAIN task_vector THEN old[term]
           ELSE IF term \in DOMAIN old
                THEN Min(SCALE, old[term] + task_vector[term] \div 100)
                ELSE task_vector[term] \div 10]]

\* a variant of lines 296-326 whose mean counts the seeded duration as a task
update_profile_mean_with_seed(profile, description, success, duration_minutes) ==
  LET task_count == profile.task_count + 1
      success_val == IF success THEN RATE ELSE 0
      task_vector == vectorize(description)
      old == profile.capability_vector
  IN [task_count |-> task_count,
      success_rate |-> (9 * profile.success_rate + 1 * success_val) \div 10,
      avg_task_duration |->
        (profile.avg_task_duration * task_count + duration_minutes)
          \div (task_count + 1),
      capability_vector |->
        [term \in DOMAIN old \cup DOMAIN task_vector |->
           IF term \notin DOMAIN task_vector THEN old[term]
           ELSE IF term \in DOMAIN old
                THEN Min(SCALE, old[term] + task_vector[term] \div 100)
                ELSE task_vector[term] \div 10]]

\* update_profile_from_completion, lines 296-326: the profile after one completion
\* (alpha = 0.1)
update_profile(profile, description, success, duration_minutes) ==
  LET task_count == profile.task_count + 1
      success_val == IF success THEN RATE ELSE 0
      task_vector == vectorize(description)
      old == profile.capability_vector
  IN [task_count |-> task_count,
      success_rate |-> (9 * profile.success_rate + 1 * success_val) \div 10,
      avg_task_duration |->
        IF task_count = 1 THEN duration_minutes
        ELSE (profile.avg_task_duration * (task_count - 1) + duration_minutes)
               \div task_count,
      capability_vector |->
        [term \in DOMAIN old \cup DOMAIN task_vector |->
           IF term \notin DOMAIN task_vector THEN old[term]
           ELSE IF term \in DOMAIN old
                THEN Min(SCALE, old[term] + task_vector[term] \div 100)
                ELSE task_vector[term] \div 10]]

\* ---------------------------------------------------------------------------
\* Two completions applied to one profile, in both orders

D_fix == [text |-> "fix bug", words |-> <<"fix", "bug">>]

D_crash == [text |-> "bug crash crash", words |-> <<"bug", "crash", "crash">>]

D_the == [text |-> "Fix the bug!", words |-> <<"fix", "the", "bug">>]

Descriptions == {D_fix, D_crash, D_the}

\* durations in minutes, in units of 1/SCALE
Durations == {12 * SCALE + SCALE \div 2, 45 * SCALE}

\* the arguments of update_profile_from_completion besides the agent
CompletionRecords ==
  [description : Descriptions, success : BOOLEAN, duration_minutes : Durations]

\* a fresh profile and one that has a completion behind it
CommuteProfiles ==
  { seed_profiles["kimi"],
    update_profile(seed_profiles["kimi"], D_fix, TRUE, 20 * SCALE) }

apply_completion(profile, rec) ==
  update_profile(profile, rec.description, rec.success, rec.duration_minutes)

ApplyFirstThenSecond ==
  /\ cm.first_second = None
  /\ cm' = [cm EXCEPT !.first_second =
              Some(apply_completion(apply_completion(cm.profile, cm.first), cm.second))]
  /\ UNCHANGED <<route_vars, builder_vars, learner, l_hist, other_vars, files>>

ApplySecondThenFirst ==
  /\ cm.second_first = None
  /\ cm' = [cm EXCEPT !.second_first =
              Some(apply_completion(apply_completion(cm.profile, cm.second), cm.first))]
  /\ UNCHANGED <<route_vars, builder_vars, learner, l_hist, other_vars, files>>

InitCommute ==
  /\ pc = "idle"
  /\ call = None
  /\ loc = None
  /\ result = None
  /\ response = None
  /\ provider_calls = 0
  /\ disk_at_call = None
  /\ prev = None
  /\ index_file = Missing
  /\ cache_file = Missing
  /\ progress_file = Missing
  /\ profiles_file = Missing
  /\ learning_log = Missing
  /\ training_file = Missing
  /\ b_pc = "idle"
  /\ b_loc = None
  /\ b_hist = None
  /\ learner = [p \in Learners |-> NoLearner]
  /\ l_hist = NoLearning
  /\ cm \in [profile : CommuteProfiles, first : CompletionRecords,
             second : CompletionRecords, first_second : {None},
             second_first : {None}]
  /\ series = NoSeries
  /\ queue = NoQueue
  /\ voting = NoVoting
  /\ sync = NoSync

NextCommute ==
  \/ ApplyFirstThenSecond
  \/ ApplySecondThenFirst

SpecCommute == InitCommute /\ [][NextCommute]_vars

\* both orders have been applied
both_orders_applied ==
  /\ cm # None
  /\ cm.first_second # None
  /\ cm.second_first # None

\* the terms of both tasks that the profile does not have yet carry the same
\* weight in both task vectors
same_weight_on_new_terms ==
  LET v1 == vectorize(cm.first.description)
      v2 == vectorize(cm.second.description)
  IN \A term \in (DOMAIN v1 \cap DOMAIN v2) \ DOMAIN cm.profile.capability_vector :
       v1[term] = v2[term]

\* C19, as stated: two completion records applied to the same profile in either
\* order give the same success_rate, avg_task_duration, task_count and
\* capability_vector.
C19_UpdatesCommute ==
  both_orders_applied =>
    /\ cm.first_second.val.success_rate = cm.second_first.val.success_rate
    /\ cm.first_second.val.avg_task_duration = cm.second_first.val.avg_task_duration
    /\ cm.first_second.val.task_count = cm.second_first.val.task_count
    /\ cm.first_second.val.capability_vector = cm.second_first.val.capability_vector

\* C19, as the update behaves: task_count and avg_task_duration are the same in
\* either order; success_rate is the same when the two completions have the same
\* success flag; capability_vector is the same when every term the two tasks
\* share and the profile lacks has the same weight in both tasks.
C19_CommuteWhereSymmetric ==
  both_orders_applied =>
    /\ cm.first_second.val.task_count = cm.second_first.val.task_count
    /\ cm.first_second.val.avg_task_duration = cm.second_first.val.avg_task_duration
    /\ cm.first.success = cm.second.success
         => cm.first_second.val.success_rate = cm.second_first.val.success_rate
    /\ same_weight_on_new_terms
         => cm.first_second.val.capability_vector
              = cm.second_first.val.capability_vector

\* two different completions, same flag and same weights on new shared terms,
\* applied in both orders to a profile that already has a completion
C19_Witness ==
  /\ both_orders_applied
  /\ cm.first # cm.second
  /\ cm.first.duration_minutes # cm.second.duration_minutes
  /\ cm.first.description.text = "fix bug"
  /\ cm.second.description.text = "Fix the bug!"
  /\ cm.first.success = cm.second.success
  /\ cm.profile.task_count = 1
  /\ cm.first_second.val.task_count = 3
  /\ cm.first_second.val = cm.second_first.val

\* ---------------------------------------------------------------------------
\* The learner as a state machine.  A learner process holds one
\* HistoricalLearner: its engine's profiles and its learning log, both loaded
\* when the object is built.  A write of a file (open(path, "w"), json.dump) is
\* two steps: the open empties the file, the dump fills it.

MaxOperations == 2

MaxSaveFailures == 1

MaxCrashes == 1

\* the files of queue/completed; timestamps are minutes on one clock, None where
\* the key is absent
CompletedTasks ==
  << [id |-> "task-001", status |-> "completed", assigned_to |-> "kimi",
      description |-> D_fix, started_at |-> Some(0), completed_at |-> Some(20)],
     [id |-> "task-002", status |-> "in_progress", assigned_to |-> "claude",
      description |-> D_crash, started_at |-> Some(5), completed_at |-> None],
     [id |-> "task-003", status |-> "completed", assigned_to |-> "kimi",
      description |-> D_crash, started_at |-> None, completed_at |-> None],
     [id |-> "task-004", status |-> "completed", assigned_to |-> "codex",
      description |-> D_fix, started_at |-> Some(30), completed_at |-> Some(30)] >>

\* the calls of MLRouter.update_from_completion; `feedback_id` is what
\* f"feedback-{hash(task_description) % 10000}" gives in the calling process
FeedbackCalls ==
  { [agent_id |-> "kimi", description |-> D_the, success |-> FALSE,
     duration_minutes |-> 45 * SCALE, feedback_id |-> "feedback-4217"] }

\* historical_learner.py lines 91-112, on timestamps that parse
calculate_duration(task) ==
  IF task.completed_at = None THEN 30 * SCALE
  ELSE IF task.started_at = None THEN 30 * SCALE
  ELSE Max((task.completed_at.val - task.started_at.val) * SCALE, 1 * SCALE)

\* lines 61-89; the tasks carry no completed_by, so it is assigned_to
extract_learning_data(task) ==
  IF task.status # "completed" THEN None
  ELSE IF task.assigned_to = "" THEN None
  ELSE Some([task_id |-> task.id, description |-> task.description,
             completed_by |-> task.assigned_to, success |-> TRUE,
             duration_minutes |-> calculate_duration(task)])

\* route_task_ml.py lines 255-262: the record update_from_completion hands to
\* learn_from_task
feedback_learning_data(fb) ==
  [task_id |-> fb.feedback_id, description |-> fb.description,
   completed_by |-> fb.agent_id, success |-> fb.success,
   duration_minutes |-> fb.duration_minutes]

\* lines 127-134, without the wall-clock timestamp
learning_entry(data) ==
  [task_id |-> data.task_id, agent_id |-> data.completed_by,
   success |-> data.success, duration |-> data.duration_minutes, learned |-> TRUE]

\* line 150: any(log.get("task_id") == task_id for log in self.learning_log)
already_learned(log, task_id) == \E i \in 1..Len(log) : log[i].task_id = task_id

outside_learner ==
  <<route_vars, builder_vars, cm, other_vars, index_file, cache_file,
    progress_file>>

\* HistoricalLearner.__init__ up to the end of engine._load_profiles (lines
\* 110-132): the store is read, or seeded and then saved
LearnerConstruct(p) ==
  /\ learner[p].pc \in {"none", "raised"}
  /\ LET fresh == [pc |-> "load_log", profiles |-> seed_profiles, log |-> <<>>,
                   op |-> "init", tasks |-> <<>>, k |-> 0, cur |-> None,
                   before |-> None, errors |-> 0, returned |-> None]
     IN IF exists(profiles_file)
        THEN LET data == json_loads(profiles_file)
             IN learner' =
                  [learner EXCEPT ![p] =
                     IF data.kind = "raise" THEN [pc |-> "raised"]
                     ELSE [fresh EXCEPT !.profiles = data.val]]
        ELSE learner' = [learner EXCEPT ![p] = [fresh EXCEPT !.pc = "profiles_open"]]
  /\ UNCHANGED <<l_hist, profiles_file, learning_log, outside_learner>>

\* _load_learning_log, lines 30-35
LearnerLoadLog(p) ==
  /\ learner[p].pc = "load_log"
  /\ IF exists(learning_log)
     THEN LET data == json_loads(learning_log)
          IN learner' =
               [learner EXCEPT ![p] =
                  IF data.kind = "raise" THEN [pc |-> "raised"]
                  ELSE [@ EXCEPT !.log = data.val, !.pc = "ready", !.op = "none"]]
     ELSE learner' = [learner EXCEPT ![p] = [@ EXCEPT !.pc = "ready", !.op = "none"]]
  /\ UNCHANGED <<l_hist, profiles_file, learning_log, outside_learner>>

\* learn_from_all_completed, lines 141-145
LearnAllStart(p) ==
  /\ learner[p].pc = "ready"
  /\ l_hist.operations < MaxOperations
  /\ learner' = [learner EXCEPT ![p] =
                   [@ EXCEPT !.pc = "all_check", !.op = "all",
                             !.tasks = CompletedTasks, !.k = 1, !.errors = 0,
                             !.returned = None]]
  /\ l_hist' = [l_hist EXCEPT !.operations = @ + 1]
  /\ UNCHANGED <<profiles_file, learning_log, outside_learner>>

\* lines 147-157: the head of the loop body, and the end of the loop
LearnAllCheck(p) ==
  /\ learner[p].pc = "all_check"
  /\ LET l == learner[p]
     IN IF l.k > Len(l.tasks)
        THEN learner' = [learner EXCEPT ![p] = [@ EXCEPT !.pc = "log_open"]]
        ELSE LET task == l.tasks[l.k]
                 learning_data == extract_learning_data(task)
             IN IF already_learned(l.log, task.id) \/ learning_data = None
                THEN learner' = [learner EXCEPT ![p] = [@ EXCEPT !.k = @ + 1]]
                ELSE learner' = [learner EXCEPT ![p] =
                                   [@ EXCEPT !.cur = learning_data, !.pc = "update"]]
  /\ UNCHANGED <<l_hist, profiles_file, learning_log, outside_learner>>

\* MLRouter.update_from_completion, lines 251-262
Feedback(p, fb) ==
  /\ learner[p].pc = "ready"
  /\ l_hist.operations < MaxOperations
  /\ learner' = [learner EXCEPT ![p] =
                   [@ EXCEPT !.pc = "update", !.op = "feedback",
                             !.cur = Some(feedback_learning_data(fb)),
                             !.returned = None]]
  /\ l_hist' = [l_hist EXCEPT !.operations = @ + 1]
  /\ UNCHANGED <<profiles_file, learning_log, outside_learner>>

\* learn_from_task lines 116-124 and update_profile_from_completion lines
\* 291-326: the profile is changed in memory
LearnUpdate(p) ==
  /\ learner[p].pc = "update"
  /\ LET l == learner[p]
         data == l.cur.val
         agent_id == data.completed_by
     IN IF agent_id \notin DOMAIN l.profiles
        THEN /\ learner' = [learner EXCEPT ![p] =
                              [@ EXCEPT !.pc = "append", !.before = Some(l.profiles)]]
             /\ UNCHANGED l_hist
        ELSE /\ learner' =
                  [learner EXCEPT ![p] =
                     [@ EXCEPT !.pc = "profiles_open",
                               !.before = Some(l.profiles),
                               !.profiles =
                                  [l.profiles EXCEPT ![agent_id] =
                                     update_profile(l.profiles[agent_id],
                                                    data.description, data.success,
                                                    data.duration_minutes)]]]
             /\ l_hist' = [l_hist EXCEPT !.updates =
                             Append(@, [learner |-> p, task_id |-> data.task_id,
                                        agent_id |-> agent_id])]
  /\ UNCHANGED <<profiles_file, learning_log, outside_learner>>

\* _save_profiles line 138: open(profiles_file, "w") empties the file
ProfilesOpen(p) ==
  /\ learner[p].pc = "profiles_open"
  /\ profiles_file' = Corrupt
  /\ learner' = [learner EXCEPT ![p] = [@ EXCEPT !.pc = "profiles_write"]]
  /\ UNCHANGED <<l_hist, learning_log, outside_learner>>

\* _save_profiles line 138: open(profiles_file, "w") raises OSError
ProfilesOpenFails(p) ==
  /\ learner[p].pc = "profiles_open"
  /\ l_hist.save_failures < MaxSaveFailures
  /\ learner' = [learner EXCEPT ![p] = [@ EXCEPT !.pc = "save_failed"]]
  /\ l_hist' = [l_hist EXCEPT !.save_failures = @ + 1]
  /\ UNCHANGED <<profiles_file, learning_log, outside_learner>>

\* _save_profiles lines 139-142: json.dump of all profiles of this engine
ProfilesWrite(p) ==
  /\ learner[p].pc = "profiles_write"
  /\ profiles_file' = Json(learner[p].profiles)
  /\ learner' = [learner EXCEPT ![p] =
                   [@ EXCEPT !.pc = IF learner[p].op = "init" THEN "load_log"
                                    ELSE "append"]]
  /\ UNCHANGED <<l_hist, learning_log, outside_learner>>

\* the OSError leaves update_profile_from_completion and learn_from_task: it
\* ends the constructor (line 26), is collected by learn_from_all_completed
\* (lines 162-163), or makes update_from_completion return False (lines 264-266)
SaveFailed(p) ==
  /\ learner[p].pc = "save_failed"
  /\ learner' =
       [learner EXCEPT ![p] =
          IF @.op = "init" THEN [pc |-> "raised"]
          ELSE IF @.op = "all"
               THEN [@ EXCEPT !.pc = "all_check", !.k = @ + 1, !.errors = @ + 1,
                              !.cur = None]
               ELSE [@ EXCEPT !.pc = "ready", !.op = "none", !.cur = None,
                              !.returned = Some(FALSE)]]
  /\ UNCHANGED <<l_hist, profiles_file, learning_log, outside_learner>>

\* learn_from_task lines 127-135: the entry is appended to the log in memory
LearnAppend(p) ==
  /\ learner[p].pc = "append"
  /\ learner' = [learner EXCEPT ![p] =
                   [@ EXCEPT !.pc = "learned",
                             !.log = Append(@, learning_entry(learner[p].cur.val))]]
  /\ UNCHANGED <<l_hist, profiles_file, learning_log, outside_learner>>

\* learn_from_task line 137 returns True: to the loop (lines 160-161), or to
\* update_from_completion (line 263)
LearnReturn(p) ==
  /\ learner[p].pc = "learned"
  /\ learner' =
       [learner EXCEPT ![p] =
          IF @.op = "all"
          THEN [@ EXCEPT !.pc = "all_check", !.k = @ + 1, !.cur = None]
          ELSE [@ EXCEPT !.pc = "ready", !.op = "none", !.cur = None,
                         !.returned = Some(TRUE)]]
  /\ UNCHANGED <<l_hist, profiles_file, learning_log, outside_learner>>

\* _save_learning_log line 40, called at line 165: the open empties the file
LogOpen(p) ==
  /\ learner[p].pc = "log_open"
  /\ learning_log' = Corrupt
  /\ learner' = [learner EXCEPT ![p] = [@ EXCEPT !.pc = "log_write"]]
  /\ UNCHANGED <<l_hist, profiles_file, outside_learner>>

\* _save_learning_log line 41, and the return of learn_from_all_completed
LogWrite(p) ==
  /\ learner[p].pc = "log_write"
  /\ learning_log' = Json(learner[p].log)
  /\ learner' = [learner EXCEPT ![p] =
                   [@ EXCEPT !.pc = "ready", !.op = "none",
                             !.returned = Some(TRUE)]]
  /\ UNCHANGED <<l_hist, profiles_file, outside_learner>>

\* the process ends at any point and takes its objects with it
Crash(p) ==
  /\ learner[p].pc \notin {"none", "raised"}
  /\ l_hist.crashes < MaxCrashes
  /\ learner' = [learner EXCEPT ![p] = NoLearner]
  /\ l_hist' = [l_hist EXCEPT !.crashes = @ + 1]
  /\ UNCHANGED <<profiles_file, learning_log, outside_learner>>

\* no route call, no cache build, no store on disk yet or a seeded one
InitLearn ==
  /\ pc = "idle"
  /\ call = None
  /\ loc = None
  /\ result = None
  /\ response = None
  /\ provider_calls = 0
  /\ disk_at_call = None
  /\ prev = None
  /\ index_file = Missing
  /\ cache_file = Missing
  /\ progress_file = Missing
  /\ profiles_file \in {Missing, Json(seed_profiles)}
  /\ learning_log = Missing
  /\ training_file = Missing
  /\ b_pc = "idle"
  /\ b_loc = None
  /\ b_hist = None
  /\ learner = [p \in Learners |-> NoLearner]
  /\ l_hist = NoLearning
  /\ cm = None
  /\ series = NoSeries
  /\ queue = NoQueue
  /\ voting = NoVoting
  /\ sync = NoSync

\* one learner process, restarted after a crash
NextLearn ==
  \E p \in {1} :
    \/ LearnerConstruct(p)
    \/ LearnerLoadLog(p)
    \/ LearnAllStart(p)
    \/ LearnAllCheck(p)
    \/ \E fb \in FeedbackCalls : Feedback(p, fb)
    \/ LearnUpdate(p)
    \/ ProfilesOpen(p)
    \/ ProfilesOpenFails(p)
    \/ ProfilesWrite(p)
    \/ SaveFailed(p)
    \/ LearnAppend(p)
    \/ LearnReturn(p)
    \/ LogOpen(p)
    \/ LogWrite(p)
    \/ Crash(p)

SpecLearn == InitLearn /\ [][NextLearn]_vars

\* two learner processes on the same data directory; no write fails and no
\* process ends early
NextLearners ==
  \E p \in Learners :
    \/ LearnerConstruct(p)
    \/ LearnerLoadLog(p)
    \/ LearnAllStart(p)
    \/ LearnAllCheck(p)
    \/ \E fb \in FeedbackCalls : Feedback(p, fb)
    \/ LearnUpdate(p)
    \/ ProfilesOpen(p)
    \/ ProfilesWrite(p)
    \/ LearnAppend(p)
    \/ LearnReturn(p)
    \/ LogOpen(p)
    \/ LogWrite(p)

SpecLearners == InitLearn /\ [][NextLearners]_vars

\* ---------------------------------------------------------------------------
\* Properties of the learner

\* the task_ids of the completions that were applied to the profile of an agent
task_ids_applied(agent_id) ==
  {l_hist.updates[i].task_id :
     i \in {j \in 1..Len(l_hist.updates) : l_hist.updates[j].agent_id = agent_id}}

\* the profiles a learner process holds in memory, if it holds any
holds_profiles(p) == learner[p].pc \notin {"none", "raised"}

\* C15: a completion record with a given task_id changes the profile of its
\* agent at most once, whichever way it is presented (learn_from_all_completed,
\* learn_from_task through update_from_completion) and across restarts of the
\* learner: no profile, on disk or in a learner's memory, counts more tasks than
\* distinct task_ids were applied to it.
C15_LearnedAtMostOnce ==
  \A agent_id \in ProfiledAgents :
    /\ profiles_file.kind = "json"
         => profiles_file.val[agent_id].task_count
              <= Cardinality(task_ids_applied(agent_id))
    /\ \A p \in Learners :
         holds_profiles(p)
           => learner[p].profiles[agent_id].task_count
                <= Cardinality(task_ids_applied(agent_id))

\* C16: whenever learn_from_task returns, the profile store on disk contains the
\* updated profile of the agent and the learning log on disk contains the entry
\* of this completion.
C16_LearnIsPersisted ==
  \A p \in Learners :
    learner[p].pc = "learned" =>
      LET data == learner[p].cur.val
          agent_id == data.completed_by
      IN /\ agent_id \in DOMAIN learner[p].profiles
              => /\ profiles_file.kind = "json"
                 /\ profiles_file.val[agent_id] = learner[p].profiles[agent_id]
         /\ learning_log.kind = "json"
         /\ \E i \in 1..Len(learning_log.val) :
              learning_log.val[i] = learning_entry(data)

\* C17: when the write of the profile store fails inside
\* update_profile_from_completion, the caller of the learner gets the failure
\* and the learner's profiles in memory are what they were before the call.
C17_SaveFailureRollsBack ==
  [][\A p \in Learners :
       SaveFailed(p) /\ learner[p].op # "init"
         => learner'[p].profiles = learner[p].before.val]_vars

\* the number of profile updates the learners applied to an agent
updates_applied(agent_id) ==
  Cardinality({i \in 1..Len(l_hist.updates) : l_hist.updates[i].agent_id = agent_id})

\* every learner process has finished an operation and none is under way
all_finished ==
  \A p \in Learners : learner[p].pc = "ready" /\ learner[p].returned # None

\* C18: two learners, each with its own SimilarityEngine, lose no update: after
\* both have finished, the task_count of every agent in the profile store has
\* grown by the number of updates applied to that agent by either learner.
C18_NoLostUpdate ==
  all_finished =>
    /\ profiles_file.kind = "json"
    /\ \A agent_id \in ProfiledAgents :
         profiles_file.val[agent_id].task_count
           = seed_profiles[agent_id].task_count + updates_applied(agent_id)

\* C20: the index, the profile store and the embedding cache are replaced
\* atomically: no state of the disk shows one of them emptied or partly written.
C20_WritesAreAtomic ==
  /\ index_file.kind # "corrupt"
  /\ profiles_file.kind # "corrupt"
  /\ cache_file.kind # "corrupt"

\* ---------------------------------------------------------------------------
\* Routing and profile properties, continued

\* no keyword, phrase or negative keyword of any agent scores for the task
no_keyword_signal(task) == \A a \in Agents : keyword_score(task, a) = 0

\* the TF-IDF query of the call, if one was made, is similar to no document
no_tfidf_overlap ==
  loc.tfidf_scores # None => \A a \in Agents : loc.tfidf_scores.val[a] = 0

MaxCompletions == 3

\* durations in minutes, in units of 1/SCALE; the seeded default is among them
SeriesDurations == {6 * SCALE, 30 * SCALE, 48 * SCALE}

SeriesRecords ==
  [description : {D_fix, D_crash}, success : BOOLEAN,
   duration_minutes : SeriesDurations]

\* update_profile_from_completion for kimi, once more
SeriesComplete(rec) ==
  /\ Len(series.durations) < MaxCompletions
  /\ series' = [profile |-> apply_completion(series.profile, rec),
                durations |-> Append(series.durations, rec.duration_minutes)]
  /\ UNCHANGED <<route_vars, builder_vars, learner_vars, files, queue, voting,
               sync>>

InitSeries ==
  /\ pc = "idle"
  /\ call = None
  /\ loc = None
  /\ result = None
  /\ response = None
  /\ provider_calls = 0
  /\ disk_at_call = None
  /\ prev = None
  /\ index_file = Missing
  /\ cache_file = Missing
  /\ progress_file = Missing
  /\ profiles_file = Missing
  /\ learning_log = Missing
  /\ training_file = Missing
  /\ b_pc = "idle"
  /\ b_loc = None
  /\ b_hist = None
  /\ learner = [p \in Learners |-> NoLearner]
  /\ l_hist = NoLearning
  /\ cm = None
  /\ series = [profile |-> seed_profiles["kimi"], durations |-> <<>>]
  /\ queue = NoQueue
  /\ voting = NoVoting
  /\ sync = NoSync

NextSeries == \E rec \in SeriesRecords : SeriesComplete(rec)

SpecSeries == InitSeries /\ [][NextSeries]_vars

\* C22: after n >= 1 completions applied to the seeded profile (task_count 0,
\* duration 30) task_count is n and avg_task_duration is the arithmetic mean of
\* the n reported durations; the seeded 30 is no part of the mean.
C22_RunningMean ==
  (series # NoSeries /\ Len(series.durations) >= 1) =>
    /\ series.profile.task_count = Len(series.durations)
    /\ series.profile.avg_task_duration * Len(series.durations)
         = SumSeq(series.durations)

\* three completions of 6, 48 and 6 minutes: the mean is 20, not a mean with 30
C22_Witness ==
  /\ series # NoSeries
  /\ series.durations = <<6 * SCALE, 48 * SCALE, 6 * SCALE>>
  /\ series.profile.task_count = 3
  /\ series.profile.avg_task_duration = 20 * SCALE

\* C23: a result whose method has no -fallback suffix and is not fallback-error
\* (the winner was accepted, or the runner-up was adopted) reports a confidence
\* that is at least the acceptance threshold of the agent it recommends.
C23_AcceptedMeetsThreshold ==
  (/\ pc = "done"
   /\ result.val.method # <<"fallback-error">>
   /\ result.val.method[3] # "-fallback")
  => result.val.confidence >= AGENT_THRESHOLDS[result.val.recommended_agent]

\* A runner-up adopted at a confidence that meets its own threshold and would
\* not have met the winner's.
C23_Witness ==
  /\ pc = "done"
  /\ result.val.method # <<"fallback-error">>
  /\ result.val.method[3] = "-threshold-adjusted"
  /\ result.val.confidence >= AGENT_THRESHOLDS[result.val.recommended_agent]
  /\ result.val.confidence < AGENT_THRESHOLDS[loc.gate.val.top]

\* ---------------------------------------------------------------------------
\* The cache builder, continued

\* the entries of the cache on disk
persisted_embeddings ==
  IF cache_file.kind = "json" THEN cache_file.val.embeddings ELSE <<>>

\* C24: in every state of the embedding cache on disk, whatever runs of
\* build_cache (resume or restart), interruptions and provider failures came
\* before and whatever the training corpus, no two entries have the same task
\* text.
C24_CacheTasksUnique ==
  \A i, j \in 1..Len(persisted_embeddings) :
    persisted_embeddings[i].task = persisted_embeddings[j].task => i = j

\* C25: when build_cache in resume mode (all samples, no max_samples) returns
\* after a run in which no provider call failed, every task text of the training
\* corpus has an entry in the cache on disk, whatever the cache file and the
\* progress file held before.
C25_ResumeCompletesCache ==
  (/\ b_pc = "done"
   /\ b_hist.resume
   /\ b_hist.max_samples = None
   /\ b_hist.failures = 0)
  => /\ cache_file.kind = "json"
     /\ \A item \in Range(training_file.val) : item.task \in cached_on_disk(cache_file)

\* ---------------------------------------------------------------------------
\* The learner, continued

\* the entries of a learning log that name an agent and say learned
entries_naming(log, agent_id) ==
  Cardinality({i \in 1..Len(log) : log[i].agent_id = agent_id /\ log[i].learned})

\* how much the task_count of an agent grew since the seed, in the profiles a
\* learner holds
growth_since_seed(profiles, agent_id) ==
  IF agent_id \in DOMAIN profiles
  THEN profiles[agent_id].task_count - seed_profiles[agent_id].task_count
  ELSE 0

\* C26: log entries and profile mutations correspond one to one and in the same
\* order: in a learner that is between operations, for every agent id the number
\* of log entries naming it equals the growth of its task_count since seeding,
\* and the task_ids of the log are, in order, the task_ids of the profile
\* mutations that were applied.
C26_LogMatchesMutations ==
  \A p \in Learners :
    learner[p].pc = "ready" =>
      /\ \A agent_id \in Agents :
           entries_naming(learner[p].log, agent_id)
             = growth_since_seed(learner[p].profiles, agent_id)
      /\ [i \in 1..Len(learner[p].log) |-> learner[p].log[i].task_id]
           = [i \in 1..Len(l_hist.updates) |-> l_hist.updates[i].task_id]

\* ---------------------------------------------------------------------------
\* The file queue (scripts/fed-queue.py)
\* ---------------------------------------------------------------------------

\* the longest sequence number of a task id, and the last clock second
MaxSeq == 3

MaxClock == 1

\* the status directories, in the order _load_task looks through them
StatusDirs == <<"pending", "in-progress", "completed">>

\* f"task-{timestamp}-{seq:04d}": the second of the clock and the sequence
\* number, each written out in full
task_id_of(timestamp, seq) == [timestamp |-> timestamp, seq |-> seq]

TaskIds == {task_id_of(t, s) : t \in 0..MaxClock, s \in 1..MaxSeq}

\* the --deps a caller passes: none, or the id the third task of the first
\* second has or will have
DepChoices == {<<>>, <<task_id_of(0, 3)>>}

\* _task_path
_task_path(task_id, status) == <<status, task_id>>

QueuePaths == {_task_path(id, StatusDirs[i]) : id \in TaskIds, i \in 1..3}

\* _load_task: the first of pending, in-progress, completed that has the file
_load_task(dir, task_id) ==
  IF exists(dir[_task_path(task_id, "pending")])
  THEN Some(dir[_task_path(task_id, "pending")].val)
  ELSE IF exists(dir[_task_path(task_id, "in-progress")])
  THEN Some(dir[_task_path(task_id, "in-progress")].val)
  ELSE IF exists(dir[_task_path(task_id, "completed")])
  THEN Some(dir[_task_path(task_id, "completed")].val)
  ELSE None

\* queue_dir.glob("*/task-*.json")
existing(dir) == {path \in QueuePaths : exists(dir[path])}

\* _generate_task_id
_generate_task_id(dir, now) == task_id_of(now, Cardinality(existing(dir)) + 1)

\* status()
queue_status(dir) ==
  [pending     |-> Cardinality({path \in existing(dir) : path[1] = "pending"}),
   in_progress |-> Cardinality({path \in existing(dir) : path[1] = "in-progress"}),
   completed   |-> Cardinality({path \in existing(dir) : path[1] = "completed"})]

\* _update_state: rewrites the counts of the state file when there is one
_update_state(state_file, dir) ==
  IF exists(state_file) THEN Json(queue_status(dir)) ELSE state_file

\* the dependencies of a task are all there and completed
deps_complete(dir, task) ==
  \A i \in 1..Len(task.dependencies) :
    /\ _load_task(dir, task.dependencies[i]) # None
    /\ _load_task(dir, task.dependencies[i]).val.status = "completed"

outside_queue ==
  <<route_vars, builder_vars, learner_vars, files, series, voting, sync>>

\* what an operation of the queue leaves behind
queue_after(dir, op, task_id, ok) ==
  [dir        |-> dir,
   state_file |-> IF op = "add" \/ ok
                  THEN _update_state(queue.state_file, dir)
                  ELSE queue.state_file,
   now        |-> queue.now,
   last       |-> [op |-> op, task_id |-> task_id, ok |-> ok]]

\* add
QueueAdd(deps) ==
  LET task_id == _generate_task_id(queue.dir, queue.now)
      task_data == [task_id |-> task_id, status |-> "pending",
                    dependencies |-> deps]
  IN /\ queue # NoQueue
     /\ task_id.seq <= MaxSeq
     /\ queue' = queue_after(
          [queue.dir EXCEPT ![_task_path(task_id, "pending")] = Json(task_data)],
          "add", task_id, TRUE)
     /\ UNCHANGED outside_queue

\* start
QueueStart(task_id) ==
  LET task == _load_task(queue.dir, task_id)
      ok == /\ task # None
            /\ task.val.status = "pending"
            /\ deps_complete(queue.dir, task.val)
  IN /\ queue # NoQueue
     /\ queue' = queue_after(
          IF ok
          THEN [queue.dir EXCEPT
                  ![_task_path(task_id, "in-progress")] =
                     Json([task.val EXCEPT !.status = "in-progress"]),
                  ![_task_path(task_id, "pending")] = Missing]
          ELSE queue.dir,
          "start", task_id, ok)
     /\ UNCHANGED outside_queue

\* complete
QueueComplete(task_id) ==
  LET task == _load_task(queue.dir, task_id)
      ok == /\ task # None
            /\ task.val.status = "in-progress"
  IN /\ queue # NoQueue
     /\ queue' = queue_after(
          IF ok
          THEN [queue.dir EXCEPT
                  ![_task_path(task_id, "completed")] =
                     Json([task.val EXCEPT !.status = "completed"]),
                  ![_task_path(task_id, "in-progress")] = Missing]
          ELSE queue.dir,
          "complete", task_id, ok)
     /\ UNCHANGED outside_queue

\* cancel
QueueCancel(task_id) ==
  LET task == _load_task(queue.dir, task_id)
      ok == /\ task # None
            /\ task.val.status # "completed"
  IN /\ queue # NoQueue
     /\ queue' = queue_after(
          IF ok
          THEN [queue.dir EXCEPT ![_task_path(task_id, task.val.status)] = Missing]
          ELSE queue.dir,
          "cancel", task_id, ok)
     /\ UNCHANGED outside_queue

\* the clock reaches the next second
QueueTick ==
  /\ queue # NoQueue
  /\ queue.now < MaxClock
  /\ queue' = [queue EXCEPT !.now = @ + 1]
  /\ UNCHANGED outside_queue

InitQueue ==
  /\ pc = "idle"
  /\ call = None
  /\ loc = None
  /\ result = None
  /\ response = None
  /\ provider_calls = 0
  /\ disk_at_call = None
  /\ prev = None
  /\ index_file = Missing
  /\ cache_file = Missing
  /\ progress_file = Missing
  /\ profiles_file = Missing
  /\ learning_log = Missing
  /\ training_file = Missing
  /\ b_pc = "idle"
  /\ b_loc = None
  /\ b_hist = None
  /\ learner = [p \in Learners |-> NoLearner]
  /\ l_hist = NoLearning
  /\ cm = None
  /\ series = NoSeries
  /\ \E state_file \in {Missing, Json(queue_status([path \in QueuePaths |-> Missing]))} :
       queue = [dir        |-> [path \in QueuePaths |-> Missing],
                state_file |-> state_file,
                now        |-> 0,
                last       |-> [op |-> "none", task_id |-> None, ok |-> FALSE]]
  /\ voting = NoVoting
  /\ sync = NoSync

NextQueue ==
  \/ \E deps \in DepChoices : QueueAdd(deps)
  \/ \E task_id \in TaskIds : QueueStart(task_id)
  \/ \E task_id \in TaskIds : QueueComplete(task_id)
  \/ \E task_id \in TaskIds : QueueCancel(task_id)
  \/ QueueTick

SpecQueue == InitQueue /\ [][NextQueue]_vars

\* the status the queue reports for a task id, "none" when it has no file
status_of(dir, task_id) ==
  IF _load_task(dir, task_id) = None THEN "none"
  ELSE _load_task(dir, task_id).val.status

\* an operation of the queue ran in this step
queue_step(op) ==
  /\ queue # NoQueue
  /\ queue'.last.op = op
  /\ queue'.last # queue.last \/ queue'.dir # queue.dir

\* every file of in-progress and completed names only dependencies that the
\* queue reports as completed
dependencies_completed ==
  queue # NoQueue =>
    \A path \in existing(queue.dir) :
      path[1] \in {"in-progress", "completed"} =>
        deps_complete(queue.dir, queue.dir[path].val)

start_is_gated ==
  (queue_step("start") /\ queue'.last.ok) =>
    /\ status_of(queue.dir, queue'.last.task_id) = "pending"
    /\ deps_complete(queue.dir, _load_task(queue.dir, queue'.last.task_id).val)

complete_is_gated ==
  (queue_step("complete") /\ queue'.last.ok) =>
    status_of(queue.dir, queue'.last.task_id) = "in-progress"

completed_is_final ==
  queue # NoQueue =>
    \A task_id \in TaskIds :
      status_of(queue.dir, task_id) = "completed" =>
        status_of(queue'.dir, task_id) = "completed"

\* C27: a task in progress or completed has all its dependencies completed;
\* start succeeds only for a pending task whose dependencies are all there and
\* completed, complete only for a task in progress; a completed task stays
\* completed whatever is called.
C27_DependencyGating ==
  /\ []dependencies_completed
  /\ [][start_is_gated /\ complete_is_gated /\ completed_is_final]_vars

\* C28: add returns an id that no task of the queue has, and writes a file
\* that was not there, however many operations one clock second holds.
C28_TaskIdsUnique ==
  [][queue_step("add") =>
       /\ _load_task(queue.dir, queue'.last.task_id) = None
       /\ ~exists(queue.dir[_task_path(queue'.last.task_id, "pending")])]_vars

\* ---------------------------------------------------------------------------
\* The voting system (scripts/fed-vote.py)
\* ---------------------------------------------------------------------------

\* the longest sequence number of a vote id, and the last clock second
MaxVoteSeq == 2

MaxVoteClock == 1

\* the calls of the voting system that are followed
MaxVoteCalls == 5

MIN_VOTERS == 2

\* 0.70, in 1/SCALE
CONFIDENCE_THRESHOLD == 700

DEFAULT_DEADLINE_HOURS == 24

SecondsPerHour == 3600

\* the directories, in the order _load_vote looks through them
VoteDirs == <<"active", "resolved", "escalated">>

\* f"vote-{timestamp}-{seq:04d}"
vote_id_of(timestamp, seq) == [timestamp |-> timestamp, seq |-> seq]

VoteIds == {vote_id_of(t, s) : t \in 0..MaxVoteClock, s \in 1..MaxVoteSeq}

VotePaths == {<<VoteDirs[i], id>> : i \in 1..3, id \in VoteIds}

\* the agents of federation-state.json, and one that is not registered
RegisteredAgents == {"claude", "kimi"}

VotingAgents == RegisteredAgents \cup {"guest"}

VoteChoices == {"app-router", "pages-router"}

\* 0.5, 0.9 and 1.5, in 1/SCALE
VoteConfidences == {500, 900, 1500}

DeadlineHours == {0, DEFAULT_DEADLINE_HOURS}

\* _load_vote: the first of active, resolved, escalated that has the file
_load_vote(dir, vote_id) ==
  IF exists(dir[<<"active", vote_id>>]) THEN Some(dir[<<"active", vote_id>>].val)
  ELSE IF exists(dir[<<"resolved", vote_id>>])
  THEN Some(dir[<<"resolved", vote_id>>].val)
  ELSE IF exists(dir[<<"escalated", vote_id>>])
  THEN Some(dir[<<"escalated", vote_id>>].val)
  ELSE None

\* _save_vote
_save_vote(dir, vote, directory) ==
  [dir EXCEPT ![<<directory, vote.vote_id>>] = Json(vote)]

\* Path.unlink(missing_ok=True) of the active file
unlink_active(dir, vote_id) == [dir EXCEPT ![<<"active", vote_id>>] = Missing]

\* _generate_vote_id: the second of the clock, and one more than the number of
\* active votes of the day
_generate_vote_id(dir, now) ==
  vote_id_of(now, Cardinality({id \in VoteIds : exists(dir[<<"active", id>>])}) + 1)

\* the choices that were voted for, and the sum of the confidences behind one
choices_of(votes) == {votes[agent].choice : agent \in DOMAIN votes}

weighted_score(votes, choice) ==
  SumOver([agent \in DOMAIN votes |-> votes[agent].confidence],
          {agent \in DOMAIN votes : votes[agent].choice = choice})

\* the result resolve_vote computes from the votes cast
vote_result(votes) ==
  LET choices == choices_of(votes)
      low_confidence ==
        \E agent \in DOMAIN votes : votes[agent].confidence < CONFIDENCE_THRESHOLD
      max_weight ==
        CHOOSE w \in {weighted_score(votes, c) : c \in choices} :
          \A c \in choices : weighted_score(votes, c) <= w
      winners == {c \in choices : weighted_score(votes, c) = max_weight}
  IN IF choices = {}
     THEN [outcome |-> "escalate", reason |-> "No votes cast"]
     ELSE IF Cardinality(choices) = 1 /\ ~low_confidence
     THEN [outcome |-> "decided", winner |-> CHOOSE c \in choices : TRUE,
           votes_for |-> Cardinality(DOMAIN votes), method |-> "unanimous"]
     ELSE IF Cardinality(winners) > 1
     THEN [outcome |-> "escalate", reason |-> "Weighted tie", tie |-> winners]
     ELSE IF low_confidence
     THEN [outcome |-> "escalate", reason |-> "Low confidence vote(s) detected",
           winner |-> CHOOSE c \in winners : TRUE, weighted_score |-> max_weight]
     ELSE [outcome |-> "decided", winner |-> CHOOSE c \in winners : TRUE,
           weighted_score |-> max_weight, method |-> "weighted_confidence"]

outside_voting ==
  <<route_vars, builder_vars, learner_vars, files, series, queue, sync>>

\* what a call of the voting system leaves behind: the directories, and which
\* call it was
voting_after(dir, op) ==
  [voting EXCEPT !.dir = dir, !.last = op, !.calls = @ + 1]

\* create_vote
CreateVote(deadline_hours) ==
  LET vote_id == _generate_vote_id(voting.dir, voting.now)
      vote == [vote_id |-> vote_id,
               deadline |-> voting.now + deadline_hours * SecondsPerHour,
               status |-> "active",
               votes |-> <<>>,
               result |-> None,
               escalation_reason |-> None]
  IN /\ voting # NoVoting
     /\ voting.calls < MaxVoteCalls
     /\ vote_id.seq <= MaxVoteSeq
     /\ voting' = voting_after(_save_vote(voting.dir, vote, "active"),
                               "create_vote")
     /\ UNCHANGED outside_voting

\* cast_vote
CastVote(vote_id, agent, choice, confidence) ==
  LET vote == _load_vote(voting.dir, vote_id)
      error ==
        IF vote = None THEN "not found"
        ELSE IF vote.val.status # "active" THEN "not active"
        ELSE IF agent \notin voting.agents THEN "unknown agent"
        ELSE IF ~(0 <= confidence /\ confidence <= SCALE) THEN "confidence"
        ELSE IF voting.now > vote.val.deadline THEN "deadline has passed"
        ELSE "ok"
      cast == [choice |-> choice, confidence |-> confidence]
      votes_after ==
        [a \in DOMAIN vote.val.votes \cup {agent} |->
           IF a = agent THEN cast ELSE vote.val.votes[a]]
  IN /\ voting # NoVoting
     /\ voting.calls < MaxVoteCalls
     /\ voting' = voting_after(
          IF error = "ok"
          THEN _save_vote(voting.dir, [vote.val EXCEPT !.votes = votes_after], "active")
          ELSE voting.dir,
          "cast_vote")
     /\ UNCHANGED outside_voting

\* resolve_vote
ResolveVote(vote_id, force) ==
  LET vote == _load_vote(voting.dir, vote_id)
      error ==
        IF vote = None THEN "not found"
        ELSE IF vote.val.status # "active" THEN "already resolved"
        ELSE IF Cardinality(DOMAIN vote.val.votes) < MIN_VOTERS /\ ~force
        THEN "need more votes"
        ELSE "ok"
      res == vote_result(vote.val.votes)
      status == IF res.outcome = "escalate" THEN "escalated" ELSE "resolved"
  IN /\ voting # NoVoting
     /\ voting.calls < MaxVoteCalls
     /\ voting' = voting_after(
          IF error = "ok"
          THEN unlink_active(
                 _save_vote(voting.dir,
                            [vote.val EXCEPT !.result = res, !.status = status],
                            status),
                 vote_id)
          ELSE voting.dir,
          "resolve_vote")
     /\ UNCHANGED outside_voting

\* escalate_vote
EscalateVote(vote_id) ==
  LET vote == _load_vote(voting.dir, vote_id)
  IN /\ voting # NoVoting
     /\ voting.calls < MaxVoteCalls
     /\ voting' = voting_after(
          IF vote # None
          THEN unlink_active(
                 _save_vote(voting.dir,
                            [vote.val EXCEPT !.status = "escalated",
                                             !.escalation_reason = "reason"],
                            "escalated"),
                 vote_id)
          ELSE voting.dir,
          "escalate_vote")
     /\ UNCHANGED outside_voting

\* the clock reaches the next second
VoteTick ==
  /\ voting # NoVoting
  /\ voting.now < MaxVoteClock
  /\ voting' = [voting EXCEPT !.now = @ + 1]
  /\ UNCHANGED outside_voting

InitVoting ==
  /\ pc = "idle"
  /\ call = None
  /\ loc = None
  /\ result = None
  /\ response = None
  /\ provider_calls = 0
  /\ disk_at_call = None
  /\ prev = None
  /\ index_file = Missing
  /\ cache_file = Missing
  /\ progress_file = Missing
  /\ profiles_file = Missing
  /\ learning_log = Missing
  /\ training_file = Missing
  /\ b_pc = "idle"
  /\ b_loc = None
  /\ b_hist = None
  /\ learner = [p \in Learners |-> NoLearner]
  /\ l_hist = NoLearning
  /\ cm = None
  /\ series = NoSeries
  /\ queue = NoQueue
  /\ voting = [dir    |-> [path \in VotePaths |-> Missing],
               agents |-> RegisteredAgents,
               now    |-> 0,
               last   |-> "none",
               calls  |-> 0]
  /\ sync = NoSync

NextVoting ==
  \/ \E deadline_hours \in DeadlineHours : CreateVote(deadline_hours)
  \/ \E vote_id \in VoteIds, agent \in VotingAgents, choice \in VoteChoices,
        confidence \in VoteConfidences :
       CastVote(vote_id, agent, choice, confidence)
  \/ \E vote_id \in VoteIds, force \in BOOLEAN : ResolveVote(vote_id, force)
  \/ \E vote_id \in VoteIds : EscalateVote(vote_id)
  \/ VoteTick

SpecVoting == InitVoting /\ [][NextVoting]_vars

\* the directories that hold a file of the vote
directories_of(dir, vote_id) ==
  {VoteDirs[i] : i \in {j \in 1..3 : exists(dir[<<VoteDirs[j], vote_id>>])}}

\* the status that goes with a directory
status_in(directory) == directory

\* status, result and votes of every file of the vote
recorded(dir, vote_id) ==
  {[status |-> dir[<<d, vote_id>>].val.status,
    result |-> dir[<<d, vote_id>>].val.result,
    votes  |-> dir[<<d, vote_id>>].val.votes] : d \in directories_of(dir, vote_id)}

\* a vote that exists has one file, and its status names the directory
one_directory ==
  voting # NoVoting =>
    \A vote_id \in VoteIds :
      \A d \in directories_of(voting.dir, vote_id) :
        /\ directories_of(voting.dir, vote_id) = {d}
        /\ voting.dir[<<d, vote_id>>].val.status = status_in(d)

\* cast_vote, resolve_vote and escalate_vote leave status, result and votes of
\* a resolved or escalated vote as they were
terminal_is_final ==
  (/\ voting # NoVoting
   /\ voting'.last \in {"cast_vote", "resolve_vote", "escalate_vote"}) =>
    \A vote_id \in VoteIds :
      (directories_of(voting.dir, vote_id) \cap {"resolved", "escalated"} # {}) =>
        recorded(voting'.dir, vote_id) = recorded(voting.dir, vote_id)

\* C29: every vote is in exactly one of active, resolved and escalated, under
\* the status of that directory; no cast_vote, resolve_vote or escalate_vote
\* changes status, result or votes of a resolved or escalated vote.
C29_VoteLifecycle ==
  /\ []one_directory
  /\ [][terminal_is_final]_vars

\* ---------------------------------------------------------------------------
\* The shared session file (scripts/federation_sync.py)
\* ---------------------------------------------------------------------------

\* the calls each caller makes
MaxSyncOps == 2

\* max_retries of update_agent_status, range(3) of add_task and update_task_status
MAX_RETRIES == 3

\* the processes that call into federation_sync
SyncProcs == {1, 2}

\* the agents create_session enters as idle
SessionAgents == {"kimi", "claude", "copilot", "codex", "ollama"}

\* what the callers pass
StatusAgents == {"kimi", "claude"}

AgentStatuses == {"active"}

TaskDescriptions == {"write docs", "fix tests"}

TaskStatuses == {"completed"}

\* f"task-{n:03d}"
session_task_id(n) == n

SessionTaskIds == {session_task_id(1), session_task_id(2)}

\* a caller between two calls
NoCall ==
  [pc |-> "idle", op |-> "none", agent |-> "none", status |-> "none",
   description |-> "none", task_id |-> 0, task |-> None, session |-> None,
   attempt |-> 0, ctx |-> "main", ret |-> None, at_return |-> None, ops |-> 0]

\* read_session: None when the file is missing or unreadable
read_session(file) == IF file.kind = "json" THEN Some(file.val) ELSE None

\* the session create_session builds, stamped with utc_now()
new_session(now) ==
  [updated_at |-> now,
   agents     |-> [agent \in SessionAgents |-> "idle"],
   tasks      |-> <<>>]

\* update_task_status, lines 163-168: the first task of that id gets the status
set_task_status(tasks, task_id, status) ==
  LET hits == {i \in 1..Len(tasks) : tasks[i].id = task_id}
  IN IF hits = {} THEN tasks
     ELSE LET first == CHOOSE i \in hits : \A j \in hits : i <= j
          IN [tasks EXCEPT ![first].status = status]

\* the change a call makes to the session it read, before its first write
mutate(proc, session) ==
  IF proc.op = "update_agent_status"
  THEN [proc EXCEPT !.session =
          Some([session EXCEPT !.agents[proc.agent] = proc.status])]
  ELSE IF proc.op = "add_task"
  THEN LET task == [id |-> session_task_id(Len(session.tasks) + 1),
                    description |-> proc.description,
                    status |-> "pending"]
       IN [proc EXCEPT !.task = Some(task),
                       !.session = Some([session EXCEPT !.tasks = Append(@, task)])]
  ELSE [proc EXCEPT !.session =
          Some([session EXCEPT
                  !.tasks = set_task_status(@, proc.task_id, proc.status)])]

\* a call returns: what it returned, and the session file as it is then
returned(proc, ret, file) ==
  [proc EXCEPT !.pc = "done", !.ret = ret, !.at_return = file]

\* what follows a write_session that returned ok
after_write(proc, ok, file) ==
  IF proc.ctx = "create"
  THEN [mutate(proc, proc.session.val) EXCEPT !.pc = "ws_check", !.ctx = "main"]
  ELSE IF ok
  THEN returned(proc,
                IF proc.op = "add_task" THEN Some(proc.task.val.id) ELSE Some(TRUE),
                file)
  ELSE IF proc.op = "update_agent_status"
  THEN IF proc.attempt + 1 = MAX_RETRIES
       THEN returned(proc, Some(FALSE), file)
       ELSE [proc EXCEPT !.pc = "read", !.attempt = @ + 1]
  ELSE [proc EXCEPT !.pc = "reread"]

outside_sync ==
  <<route_vars, builder_vars, learner_vars, files, series, queue, voting>>

\* a caller starts update_agent_status, add_task or update_task_status
SyncCall(p, op, agent, status, description, task_id) ==
  /\ sync # NoSync
  /\ sync.proc[p].pc \in {"idle", "done"}
  /\ sync.proc[p].ops < MaxSyncOps
  /\ sync' = [sync EXCEPT !.proc[p] =
       [NoCall EXCEPT !.pc = "read", !.op = op, !.agent = agent,
                      !.status = status, !.description = description,
                      !.task_id = task_id, !.ops = sync.proc[p].ops + 1]]
  /\ UNCHANGED outside_sync

\* session = read_session(), and what the call does with it
SyncRead(p) ==
  LET proc == sync.proc[p]
      session == read_session(sync.file)
  IN /\ sync # NoSync
     /\ proc.pc = "read"
     /\ sync' = [sync EXCEPT !.proc[p] =
          IF session = None
          THEN IF proc.op = "update_task_status"
               THEN returned(proc, Some(FALSE), sync.file)
               ELSE [proc EXCEPT !.pc = "create"]
          ELSE [mutate(proc, session.val) EXCEPT !.pc = "ws_check", !.ctx = "main"]]
     /\ UNCHANGED outside_sync

\* create_session up to its write_session
SyncCreate(p) ==
  /\ sync # NoSync
  /\ sync.proc[p].pc = "create"
  /\ sync' = [sync EXCEPT
       !.proc[p] = [@ EXCEPT !.pc = "ws_check", !.ctx = "create",
                             !.session = Some(new_session(sync.clock))],
       !.clock = @ + 1]
  /\ UNCHANGED outside_sync

\* write_session, lines 54-61: the conflict check and the new updated_at
SyncWsCheck(p) ==
  LET proc == sync.proc[p]
      current == read_session(sync.file)
  IN /\ sync # NoSync
     /\ proc.pc = "ws_check"
     /\ sync' =
          IF proc.session = None
          THEN [sync EXCEPT !.proc[p] = returned(proc, Raise("TypeError"), sync.file)]
          ELSE IF current # None /\ proc.session.val.updated_at # current.val.updated_at
          THEN [sync EXCEPT !.proc[p] = after_write(proc, FALSE, sync.file)]
          ELSE [sync EXCEPT
                  !.proc[p] = [proc EXCEPT
                     !.pc = "ws_write",
                     !.session = Some([proc.session.val EXCEPT
                                         !.updated_at = sync.clock])],
                  !.clock = @ + 1]
     /\ UNCHANGED outside_sync

\* write_session, line 65: temp_path.write_text
SyncWsWrite(p) ==
  /\ sync # NoSync
  /\ sync.proc[p].pc = "ws_write"
  /\ sync' = [sync EXCEPT !.tmp = Json(sync.proc[p].session.val),
                          !.proc[p].pc = "ws_rename"]
  /\ UNCHANGED outside_sync

\* write_session, line 66: temp_path.rename; FileNotFoundError when another
\* caller renamed the temporary file away
SyncWsRename(p) ==
  LET proc == sync.proc[p]
  IN /\ sync # NoSync
     /\ proc.pc = "ws_rename"
     /\ sync' =
          IF exists(sync.tmp)
          THEN [sync EXCEPT !.file = sync.tmp, !.tmp = Missing,
                            !.proc[p] = after_write(proc, TRUE, sync.tmp)]
          ELSE [sync EXCEPT
                  !.proc[p] = returned(proc, Raise("FileNotFoundError"), sync.file)]
     /\ UNCHANGED outside_sync

\* add_task, lines 150-151, and update_task_status, line 173: read again after
\* a conflict
SyncReread(p) ==
  LET proc == sync.proc[p]
      session == read_session(sync.file)
      again ==
        IF proc.op = "add_task"
        THEN [proc EXCEPT !.session =
                Some([session.val EXCEPT !.tasks = Append(@, proc.task.val)])]
        ELSE [proc EXCEPT !.session = session]
  IN /\ sync # NoSync
     /\ proc.pc = "reread"
     /\ sync' = [sync EXCEPT !.proc[p] =
          IF session = None /\ proc.op = "add_task"
          THEN returned(proc, Raise("TypeError"), sync.file)
          ELSE IF proc.attempt + 1 = MAX_RETRIES
          THEN returned(again,
                        IF proc.op = "add_task" THEN None ELSE Some(FALSE),
                        sync.file)
          ELSE [again EXCEPT !.pc = "ws_check", !.attempt = @ + 1]]
     /\ UNCHANGED outside_sync

InitSync ==
  /\ pc = "idle"
  /\ call = None
  /\ loc = None
  /\ result = None
  /\ response = None
  /\ provider_calls = 0
  /\ disk_at_call = None
  /\ prev = None
  /\ index_file = Missing
  /\ cache_file = Missing
  /\ progress_file = Missing
  /\ profiles_file = Missing
  /\ learning_log = Missing
  /\ training_file = Missing
  /\ b_pc = "idle"
  /\ b_loc = None
  /\ b_hist = None
  /\ learner = [p \in Learners |-> NoLearner]
  /\ l_hist = NoLearning
  /\ cm = None
  /\ series = NoSeries
  /\ queue = NoQueue
  /\ voting = NoVoting
  /\ sync = [file  |-> Missing,
             tmp   |-> Missing,
             clock |-> 1,
             proc  |-> [p \in SyncProcs |-> NoCall]]

NextSync ==
  \E p \in SyncProcs :
    \/ \E agent \in StatusAgents, status \in AgentStatuses :
         SyncCall(p, "update_agent_status", agent, status, "none", 0)
    \/ \E description \in TaskDescriptions :
         SyncCall(p, "add_task", "none", "none", description, 0)
    \/ \E task_id \in SessionTaskIds, status \in TaskStatuses :
         SyncCall(p, "update_task_status", "none", status, "none", task_id)
    \/ SyncRead(p)
    \/ SyncCreate(p)
    \/ SyncWsCheck(p)
    \/ SyncWsWrite(p)
    \/ SyncWsRename(p)
    \/ SyncReread(p)

SpecSync == InitSync /\ [][NextSync]_vars

\* the tasks of a session file that carry the id
tasks_with(file, task_id) ==
  IF file.kind # "json" THEN {}
  ELSE {i \in 1..Len(file.val.tasks) : file.val.tasks[i].id = task_id}

\* the call of process p has returned, reporting success
succeeded(p, op) ==
  /\ sync # NoSync
  /\ sync.proc[p].pc = "done"
  /\ sync.proc[p].op = op
  /\ sync.proc[p].ret.kind = "value"
  /\ op # "add_task" => sync.proc[p].ret.val

agent_status_present(p) ==
  succeeded(p, "update_agent_status") =>
    /\ sync.proc[p].at_return.kind = "json"
    /\ sync.proc[p].at_return.val.agents[sync.proc[p].agent] = sync.proc[p].status

added_task_present(p) ==
  succeeded(p, "add_task") =>
    \E i \in tasks_with(sync.proc[p].at_return, sync.proc[p].ret.val) :
      /\ tasks_with(sync.proc[p].at_return, sync.proc[p].ret.val) = {i}
      /\ sync.proc[p].at_return.val.tasks[i] = sync.proc[p].task.val

task_status_present(p) ==
  succeeded(p, "update_task_status") =>
    \E i \in tasks_with(sync.proc[p].at_return, sync.proc[p].task_id) :
      sync.proc[p].at_return.val.tasks[i].status = sync.proc[p].status

\* C30: a call that reports success has its change in the session file when
\* it returns, other writers or not: the agent's new status after
\* update_agent_status, the task under an id no other task has after add_task,
\* the requested status of the task after update_task_status.
C30_SuccessIsPersisted ==
  \A p \in SyncProcs :
    /\ agent_status_present(p)
    /\ added_task_present(p)
    /\ task_status_present(p)

====
